---- MODULE Spec2Model ----
(***************************************************************************)
(* Account pool, proxy orchestrator, usage recorder, API-key gate and      *)
(* model listing of the Antigravity API proxy (Go).                        *)
(* Optional values (Go pointers that may be nil, files                     *)
(* that may be absent) are sequences: <<>> is nil/absent, <<v>> is set.    *)
(* Times are wall-clock seconds; timestamp and lastRefresh are kept in     *)
(* milliseconds, as the code keeps them.                                   *)
(***************************************************************************)
EXTENDS Integers, Sequences, FiniteSets, TLC

\* ------------------------------------------------------------------ bounds
MaxTicks == 1          \* how many times the clock advances in one run
MaxFaults == 2         \* non-200 upstream outcomes and refresh failures injected
MaxAcquires == 2       \* GetToken calls of all requests together
MaxSeqFaults == 5      \* injected failures in the runs of a single request
MaxOps == 1            \* operator actions (toggle, delete) in one run
MaxBgRuns == 1         \* runs of the background refresher
MaxStreak == 66        \* generic failures in a row in the record-level runs
MaxRateLimits == 6     \* 429s in a row in the record-level runs
MaxCalls == 4          \* GetToken calls of the rotation harness
MaxRaceFaults == 1     \* injected failures while two requests share one account
MaxRaceAcquires == 3   \* GetToken calls of the two requests that share one account
MaxPoolCalls == 2      \* concurrent GetToken calls on the pool
MaxPoolOps == 1        \* accounts deleted while GetToken calls run
MaxLines == 3                      \* lines of an upstream response body
MaxPieces == 4

MaxItems == 3

MaxServeRuns == 2                  \* runs of the refresher while the server shuts down
MaxRefreshTicks == 2               \* refresh periods that pass between refreshes of one record
MaxGrants == 3                     \* grants the token endpoint issues to RefreshToken called on its own

Accts == <<"a1", "a2", "a3">>      \* account ids, in directory (name) order
AcctSet == {Accts[k] : k \in 1..Len(Accts)}
Arrivals == <<"r1", "r2">>         \* concurrent chat-completion requests
Reqs == {Arrivals[k] : k \in 1..Len(Arrivals)}
StartTime == 5000                  \* wall clock at server start
DayLength == 86400                 \* seconds in a calendar day
TickSteps == {3, 120}              \* amounts by which the clock advances
UsageTriples == {<<2, 1, 3>>, <<2, 1, 5>>}  \* (prompt, candidates, total) reported upstream
Bodies == {"quota", "malformed"}   \* upstream error bodies
Catalog ==                         \* model ids the upstream lists for each account
  [id \in AcctSet |-> IF id = Accts[1] THEN {"gemini", "claude"}
                      ELSE IF id = Accts[2] THEN {"claude"} ELSE {"gpt"}]
Callers == {"c1", "c2"}            \* concurrent callers of GET /v1/models

\* ------------------------------------------------------- program constants
maxRetries == 5
MaxCooldown == 3600
FirstBackoff == 120
MaxBackoff == 1800
RefreshWindow == 1800
RefreshPeriod == 1800
TokenLifetime == 3600
Int64Bits == 64

Min(a, b) == IF a < b THEN a ELSE b

\* Stand-ins for int64 values outside the model checker's integer range.  Every use
\* of a cooldown is a comparison with MaxCooldown or an addition to the clock,
\* so any value above MaxCooldown stands for 2^31..2^62 and any value far
\* below -StartTime stands for -2^63.
BigInt64 == 2 ^ 30
MinInt64 == -(2 ^ 30)

\* ------------------------------------------------------------ models.Account
ZeroErrorTracking ==
  [consecutiveFailures |-> 0, lastError |-> "", lastErrorTime |-> <<>>,
   failedUntil |-> <<>>, rateLimitCount |-> 0, rateLimitBackoff |-> 0,
   isPermissionDenied |-> FALSE]

ZeroUsage ==
  [totalTokens |-> 0, inputTokens |-> 0, outputTokens |-> 0,
   requestCount |-> 0, lastUsed |-> <<>>]

\* time.Time.UnixMilli of a whole second.
Millis(t) == t * 1000

\* The record SaveAccountFromToken writes at time t; its models map holds what
\* fetchModels returned for the account (the keys of the map).
NewAccount(id, t) ==
  [accountId |-> id, accessToken |-> 0, refreshToken |-> 0,
   expiresIn |-> TokenLifetime, timestamp |-> Millis(t), enable |-> TRUE,
   models |-> Catalog[id],
   lastRefresh |-> Millis(t), refreshStatus |-> "success",
   usage |-> <<ZeroUsage>>, errorTracking |-> <<ZeroErrorTracking>>]

\* The record the tests' createTestAccount writes at time t: no usage block,
\* and an error-tracking block only for a cooldown, whose end it writes in
\* milliseconds.
TestAccount(id, enable, cooldown, t) ==
  [accountId |-> id, accessToken |-> 0, refreshToken |-> 0,
   expiresIn |-> TokenLifetime, timestamp |-> Millis(t), enable |-> enable,
   models |-> {},
   lastRefresh |-> 0, refreshStatus |-> "",
   usage |-> <<>>,
   errorTracking |->
     IF cooldown
     THEN <<[ZeroErrorTracking EXCEPT !.failedUntil = <<Millis(t + 3600)>>]>>
     ELSE <<>>]

\* `if a.ErrorTracking == nil { a.ErrorTracking = &ErrorTracking{} }`
ET(a) == IF a.errorTracking = <<>> THEN ZeroErrorTracking ELSE a.errorTracking[1]

IsInCooldown_Never(a, t) == FALSE

IsInCooldown(a, t) ==
  /\ a.errorTracking # <<>>
  /\ a.errorTracking[1].failedUntil # <<>>
  /\ t < a.errorTracking[1].failedUntil[1]

\* Variants of NeedsRefresh that every check of the refresh policy must tell
\* from it: every usable account is due, no account is due.
NeedsRefresh_Always(a, t) == a.enable /\ ~IsInCooldown(a, t)

NeedsRefresh_Never(a, t) == FALSE

NeedsRefresh(a, t) ==
  IF ~a.enable \/ IsInCooldown(a, t) THEN FALSE
  ELSE IF a.timestamp = 0 \/ a.expiresIn = 0 THEN TRUE
  ELSE ((a.timestamp \div 1000) + a.expiresIn) - t < RefreshWindow

RecordSuccess(a, t) ==
  [a EXCEPT !.refreshStatus = "success", !.lastRefresh = Millis(t),
            !.errorTracking = <<[ET(a) EXCEPT !.consecutiveFailures = 0,
                                               !.lastError = "",
                                               !.lastErrorTime = <<>>,
                                               !.failedUntil = <<>>,
                                               !.rateLimitCount = 0,
                                               !.rateLimitBackoff = 0]>>]

\* int64(1 << n) for n >= 0: exact up to 2^30, a value above every threshold up
\* to 2^62, the sign bit alone at n = 63, and 0 once every bit is shifted out.
Shl1(n) ==
  IF n >= Int64Bits THEN 0
  ELSE IF n = Int64Bits - 1 THEN MinInt64
  ELSE IF n > 30 THEN BigInt64
  ELSE 2 ^ n

Cooldown(failures) ==
  LET cooldownSeconds == Shl1(failures)
  IN  IF cooldownSeconds > MaxCooldown THEN MaxCooldown ELSE cooldownSeconds

RecordFailure(a, err, t) ==
  LET n == ET(a).consecutiveFailures + 1
  IN  [a EXCEPT !.refreshStatus = "failed",
                !.errorTracking = <<[ET(a) EXCEPT !.consecutiveFailures = n,
                                                   !.lastError = err,
                                                   !.lastErrorTime = <<t>>,
                                                   !.failedUntil = <<t + Cooldown(n)>>]>>]

Backoff_NoDoubling(prev) == FirstBackoff

Backoff(prev) ==
  LET backoffSeconds == IF prev > 0 THEN prev * 2 ELSE FirstBackoff
  IN  IF backoffSeconds > MaxBackoff THEN MaxBackoff ELSE backoffSeconds

RecordRateLimit(a, t) ==
  LET b == Backoff(ET(a).rateLimitBackoff)
  IN  [a EXCEPT !.refreshStatus = "rate_limited",
                !.errorTracking = <<[ET(a) EXCEPT !.rateLimitCount = @ + 1,
                                                   !.lastError = "HTTP 429: Rate Limit Exceeded",
                                                   !.lastErrorTime = <<t>>,
                                                   !.rateLimitBackoff = b,
                                                   !.failedUntil = <<t + b>>]>>]

RecordPermissionDenied(a, t) ==
  [a EXCEPT !.refreshStatus = "permission_denied", !.enable = FALSE,
            !.errorTracking = <<[ET(a) EXCEPT !.isPermissionDenied = TRUE,
                                               !.lastError = "HTTP 403: Permission Denied - Account does not have required entitlements",
                                               !.lastErrorTime = <<t>>]>>]

\* ------------------------------------------------------------------- state
VARIABLES
  store,         \* accounts directory: id -> <<>> (no file) or <<account>>
  usageFiles,    \* usage directory: <<date, id>> -> usage record
  currentIndex,  \* Client.currentIndex, the rotation cursor
  now,           \* wall clock, seconds
  budget,        \* what the run may still do: requests, faults, acquires, ticks, ...
  tokenSeq,      \* last access/refresh token value the token endpoint issued
  req,           \* per request: the locals of chatCompletions and GetToken
  bg,            \* background refresher: the locals of RefreshAllTokens
  op,            \* operator (admin console): the locals of toggleToken
  served,        \* history: per account, completions that updated its usage block
  ledger,        \* history: <<date, id>> -> sums over completions recorded that day
  trace,         \* history of the last recorded outcome / returned accounts
  cfg,           \* the configuration object (security.api_key)
  keyFiles,      \* keys directory and what a key lookup can reach: path -> <<>> or <<file>>
  gate,          \* per caller of a /v1 endpoint: the locals of apiKeyAuthMiddleware
  serve          \* runServe: "serving", "draining" after the signal, "exited"

vars == <<store, usageFiles, currentIndex, now, budget, tokenSeq,
          req, bg, op, served, ledger, trace, cfg, keyFiles, gate, serve>>

\* ------------------------------------------------------ storage.AccountStore
\* encoding/json on a struct: Marshal leaves out every `omitempty` field that
\* holds its zero value (a nil pointer is <<>>), Unmarshal leaves every field
\* the document lacks at the zero value of a fresh struct.  A document gives
\* for each key <<>> when it lacks the key and <<value>> when it has it.
OmitEmpty(value, zero) == IF value = zero THEN <<>> ELSE <<value>>

FillZero(member, zero) == IF member = <<>> THEN zero ELSE member[1]

MarshalUsage(u) ==
  [totalTokens |-> <<u.totalTokens>>, inputTokens |-> <<u.inputTokens>>,
   outputTokens |-> <<u.outputTokens>>, requestCount |-> <<u.requestCount>>,
   lastUsed |-> OmitEmpty(u.lastUsed, <<>>)]

UnmarshalUsage(doc) ==
  [totalTokens |-> FillZero(doc.totalTokens, 0),
   inputTokens |-> FillZero(doc.inputTokens, 0),
   outputTokens |-> FillZero(doc.outputTokens, 0),
   requestCount |-> FillZero(doc.requestCount, 0),
   lastUsed |-> FillZero(doc.lastUsed, <<>>)]

MarshalErrorTracking(e) ==
  [consecutiveFailures |-> <<e.consecutiveFailures>>,
   lastError |-> OmitEmpty(e.lastError, ""),
   lastErrorTime |-> OmitEmpty(e.lastErrorTime, <<>>),
   failedUntil |-> OmitEmpty(e.failedUntil, <<>>),
   rateLimitCount |-> OmitEmpty(e.rateLimitCount, 0),
   rateLimitBackoff |-> OmitEmpty(e.rateLimitBackoff, 0),
   isPermissionDenied |-> OmitEmpty(e.isPermissionDenied, FALSE)]

UnmarshalErrorTracking(doc) ==
  [consecutiveFailures |-> FillZero(doc.consecutiveFailures, 0),
   lastError |-> FillZero(doc.lastError, ""),
   lastErrorTime |-> FillZero(doc.lastErrorTime, <<>>),
   failedUntil |-> FillZero(doc.failedUntil, <<>>),
   rateLimitCount |-> FillZero(doc.rateLimitCount, 0),
   rateLimitBackoff |-> FillZero(doc.rateLimitBackoff, 0),
   isPermissionDenied |-> FillZero(doc.isPermissionDenied, FALSE)]

\* A variant of MarshalAccount that never writes the usage block.
MarshalAccount_NoUsage(a) ==
  [accountId |-> <<a.accountId>>, accessToken |-> <<a.accessToken>>,
   refreshToken |-> <<a.refreshToken>>, expiresIn |-> <<a.expiresIn>>,
   timestamp |-> <<a.timestamp>>, enable |-> <<a.enable>>,
   models |-> OmitEmpty(a.models, {}),
   lastRefresh |-> OmitEmpty(a.lastRefresh, 0),
   refreshStatus |-> OmitEmpty(a.refreshStatus, ""),
   usage |-> <<>>,
   errorTracking |-> IF a.errorTracking = <<>> THEN <<>>
                     ELSE <<MarshalErrorTracking(a.errorTracking[1])>>]

MarshalAccount(a) ==
  [accountId |-> <<a.accountId>>, accessToken |-> <<a.accessToken>>,
   refreshToken |-> <<a.refreshToken>>, expiresIn |-> <<a.expiresIn>>,
   timestamp |-> <<a.timestamp>>, enable |-> <<a.enable>>,
   models |-> OmitEmpty(a.models, {}),
   lastRefresh |-> OmitEmpty(a.lastRefresh, 0),
   refreshStatus |-> OmitEmpty(a.refreshStatus, ""),
   usage |-> IF a.usage = <<>> THEN <<>> ELSE <<MarshalUsage(a.usage[1])>>,
   errorTracking |-> IF a.errorTracking = <<>> THEN <<>>
                     ELSE <<MarshalErrorTracking(a.errorTracking[1])>>]

UnmarshalAccount(doc) ==
  [accountId |-> FillZero(doc.accountId, ""),
   accessToken |-> FillZero(doc.accessToken, 0),
   refreshToken |-> FillZero(doc.refreshToken, 0),
   expiresIn |-> FillZero(doc.expiresIn, 0),
   timestamp |-> FillZero(doc.timestamp, 0),
   enable |-> FillZero(doc.enable, FALSE),
   models |-> FillZero(doc.models, {}),
   lastRefresh |-> FillZero(doc.lastRefresh, 0),
   refreshStatus |-> FillZero(doc.refreshStatus, ""),
   usage |-> IF doc.usage = <<>> THEN <<>> ELSE <<UnmarshalUsage(doc.usage[1])>>,
   errorTracking |-> IF doc.errorTracking = <<>> THEN <<>>
                     ELSE <<UnmarshalErrorTracking(doc.errorTracking[1])>>]

\* A file is kept as the record json.Unmarshal makes of its text.
Save(st, a) == [st EXCEPT ![a.accountId] = <<UnmarshalAccount(MarshalAccount(a))>>]

Load(st, id) == st[id]

RECURSIVE ListFrom(_, _)
ListFrom(st, k) ==
  IF k > Len(Accts) THEN <<>>
  ELSE (IF st[Accts[k]] = <<>> THEN <<>> ELSE <<Accts[k]>>) \o ListFrom(st, k + 1)

\* os.ReadDir returns the entries sorted by file name.
List(st) == ListFrom(st, 1)

Delete(st, id) == [st EXCEPT ![id] = <<>>]

\* ------------------------------------------------------- storage.UsageStore
DateOf(t) == t \div DayLength

EmptyDir == [k \in {} |-> 0]

NewUsageRecord(date, id) ==
  [date |-> date, accountId |-> id, totalTokens |-> 0, inputTokens |-> 0,
   outputTokens |-> 0, requestCount |-> 0]

ReadUsage(files, date, id) ==
  IF <<date, id>> \in DOMAIN files THEN files[<<date, id>>]
  ELSE NewUsageRecord(date, id)

AddUsage(record, inputTokens, outputTokens) ==
  [record EXCEPT !.inputTokens = @ + inputTokens,
                 !.outputTokens = @ + outputTokens,
                 !.totalTokens = @ + inputTokens + outputTokens,
                 !.requestCount = @ + 1]

WriteUsage(files, record) ==
  (<<record.date, record.accountId>> :> record) @@ files

\* ------------------------------------------------------------- oauth.Client
\* RefreshToken after the token endpoint answered: the account the caller
\* holds is updated in place and saved whole.
\* err.Error() of what tokenSource.Token() can fail with: the token endpoint
\* answered 403, or it could not be reached.
RefreshErrors ==
  {"oauth2: cannot fetch token: 403 Forbidden", "token endpoint unreachable"}

RefreshFailed(a, err, t) == RecordFailure(a, err, t)

\* A grant is the access token and the refresh token (<<>> for "") the token
\* endpoint returned; fetched is what fetchModels then returned (<<>> for an
\* error, which is only logged).
RefreshSucceeded_KeepRefreshToken(a, t, access, refresh, fetched) ==
  RecordSuccess([a EXCEPT !.accessToken = access,
                          !.expiresIn = TokenLifetime,
                          !.timestamp = Millis(t),
                          !.models = IF fetched = <<>> THEN @ ELSE fetched[1]], t)

RefreshSucceeded(a, t, access, refresh, fetched) ==
  RecordSuccess([a EXCEPT !.accessToken = access,
                          !.refreshToken = IF refresh = <<>> THEN @ ELSE refresh[1],
                          !.expiresIn = TokenLifetime,
                          !.timestamp = Millis(t),
                          !.models = IF fetched = <<>> THEN @ ELSE fetched[1]], t)

\* What fetchModels can return for an account.
Fetched(id) == {<<>>, <<Catalog[id]>>}

\* What one position of a walk (GetToken, RefreshAllTokens) does with the
\* candidate it loaded.
Candidate(st, id, t) ==
  IF Load(st, id) = <<>> THEN "load_error"
  ELSE IF ~Load(st, id)[1].enable THEN "disabled"
  ELSE IF IsInCooldown(Load(st, id)[1], t) THEN "cooldown"
  ELSE IF NeedsRefresh(Load(st, id)[1], t) THEN "refresh"
  ELSE "ok"

\* ------------------------------------------------------------ models.APIKey
\* A key, like every string that names a file here, is the sequence of the
\* pieces of its text; ":", "_", "/" and ".." are pieces of their own.
NewAPIKey(key) == [key |-> key, usageCount |-> 0, lastUsed |-> <<>>]

\* json.Unmarshal of a file into an APIKey: a field the file lacks stays zero.
UnmarshalAPIKey(file) ==
  [key |-> IF "key" \in DOMAIN file THEN file.key ELSE <<>>,
   usageCount |-> IF "usageCount" \in DOMAIN file THEN file.usageCount ELSE 0,
   lastUsed |-> IF "lastUsed" \in DOMAIN file THEN file.lastUsed ELSE <<>>]

UpdateUsage(k, t) == [k EXCEPT !.lastUsed = <<t>>, !.usageCount = @ + 1]

\* --------------------------------------------------------- storage.KeyStore
StaticKey == <<"k0">>
IssuedKeys == {<<"k1">>, <<"k", ":", "1">>}              \* keys whose files can exist
PresentedKeys ==                                         \* keys callers present
  {StaticKey, <<"k1">>, <<"k2">>, <<"k", ":", "1">>, <<"k", "_", "1">>,
   <<"..", "/", "accounts", "/", "a1">>}

KeysDir == << <<"data">>, <<"keys">> >>
AccountsDir == << <<"data">>, <<"accounts">> >>

sanitizeKeyFilename(key) == [k \in 1..Len(key) |-> IF key[k] = ":" THEN "_" ELSE key[k]]

\* The segments of a file name between its "/" pieces; acc is the segment
\* being read.
RECURSIVE SplitPath(_, _)
SplitPath(name, acc) ==
  IF name = <<>> THEN <<acc>>
  ELSE IF Head(name) = "/" THEN <<acc>> \o SplitPath(Tail(name), <<>>)
  ELSE SplitPath(Tail(name), Append(acc, Head(name)))

\* filepath.Clean over directory segments: an empty one is dropped, ".."
\* removes the one before it.
RECURSIVE Clean(_, _)
Clean(dir, segs) ==
  IF segs = <<>> THEN dir
  ELSE IF Head(segs) = <<>> THEN Clean(dir, Tail(segs))
  ELSE IF Head(segs) = <<"..">> /\ dir # <<>>
    THEN Clean(SubSeq(dir, 1, Len(dir) - 1), Tail(segs))
  ELSE Clean(Append(dir, Head(segs)), Tail(segs))

\* filepath.Join(keysDir, sanitizeKeyFilename(key) + ".json"): the directory
\* the file lies in, then its name without the ".json" every file ends in.
KeyPath(key) ==
  LET segs == SplitPath(sanitizeKeyFilename(key), <<>>)
  IN  Append(Clean(KeysDir, SubSeq(segs, 1, Len(segs) - 1)), segs[Len(segs)])

KeyFileNames == {sanitizeKeyFilename(k) : k \in IssuedKeys} \cup {<<>>}

\* os.ReadFile: the keys directory and the accounts directory lie side by side.
ReadFile(keys, st, path) ==
  LET dir == SubSeq(path, 1, Len(path) - 1)
      name == path[Len(path)]
  IN  IF dir = KeysDir /\ name \in DOMAIN keys THEN keys[name]
      ELSE IF dir = AccountsDir /\ Len(name) = 1 /\ name[1] \in AcctSet THEN st[name[1]]
      ELSE <<>>

KeyStoreLoad(keys, st, key) ==
  LET file == ReadFile(keys, st, KeyPath(key))
  IN  IF file = <<>> THEN <<>> ELSE <<UnmarshalAPIKey(file[1])>>

KeyStoreSave(keys, k) ==
  LET path == KeyPath(k.key)
      name == path[Len(path)]
  IN  IF SubSeq(path, 1, Len(path) - 1) = KeysDir /\ name \in DOMAIN keys
      THEN [keys EXCEPT ![name] = <<k>>]
      ELSE keys

\* ------------------------------------------------ server.apiKeyAuthMiddleware
IdleGate ==
  [pc |-> "idle", header |-> <<>>, apiKey |-> <<>>, key |-> <<>>, source |-> "",
   resp |-> <<>>]

\* The Authorization header values callers send: none, the bare prefix, and
\* every presented key with and without the prefix.
Headers ==
  {<<>>, <<"Bearer ">>} \cup PresentedKeys \cup {<<"Bearer ">> \o k : k \in PresentedKeys}

\* `if len(authHeader) > 7 && authHeader[:7] == "Bearer "`
BearerToken(authHeader) ==
  IF Len(authHeader) > 1 /\ authHeader[1] = "Bearer " THEN Tail(authHeader)
  ELSE authHeader

Unauthorized(code) == <<[status |-> 401, code |-> code, data |-> {}]>>

\* The middleware up to and including keyStore.Load.
Authenticate(c, authHeader) ==
  LET g == [gate[c] EXCEPT !.header = authHeader]
      apiKey == BearerToken(authHeader)
      key == KeyStoreLoad(keyFiles, store, apiKey)
  IN  /\ gate[c].pc = "idle"
      /\ gate' = [gate EXCEPT ![c] =
                    IF authHeader = <<>>
                      THEN [g EXCEPT !.pc = "done", !.resp = Unauthorized("missing_api_key")]
                    ELSE IF cfg.apiKey # <<>> /\ apiKey = cfg.apiKey
                      THEN [g EXCEPT !.pc = "handler", !.apiKey = apiKey,
                                     !.source = "config"]
                    ELSE IF key = <<>>
                      THEN [g EXCEPT !.pc = "done", !.apiKey = apiKey,
                                     !.resp = Unauthorized("invalid_api_key")]
                    ELSE [g EXCEPT !.pc = "update", !.apiKey = apiKey, !.key = key]]
      /\ UNCHANGED <<serve, store, usageFiles, currentIndex, now, budget, tokenSeq,
                     req, bg, op, served, ledger, trace, cfg, keyFiles>>

\* key.UpdateUsage(), keyStore.Save(key), then c.Next().
SaveKeyUsage(c) ==
  LET g == gate[c]
      key == UpdateUsage(g.key[1], now)
  IN  /\ g.pc = "update"
      /\ keyFiles' = KeyStoreSave(keyFiles, key)
      /\ gate' = [gate EXCEPT ![c] = [g EXCEPT !.pc = "handler", !.key = <<key>>,
                                                !.source = "database"]]
      /\ UNCHANGED <<serve, store, usageFiles, currentIndex, now, budget, tokenSeq,
                     req, bg, op, served, ledger, trace, cfg>>

\* ------------------------------------------------------- server.listModels
\* The keys of modelsMap: every account file's models are put in, whatever
\* the file's other fields say.
modelsMap(st) == UNION {st[id][1].models : id \in {a \in AcctSet : st[a] # <<>>}}

listModels(c) ==
  LET g == gate[c]
  IN  /\ g.pc = "handler"
      /\ gate' = [gate EXCEPT ![c] =
                    [g EXCEPT !.pc = "done",
                              !.resp = <<[status |-> 200, code |-> "",
                                          data |-> modelsMap(store)]>>]]
      /\ UNCHANGED <<serve, store, usageFiles, currentIndex, now, budget, tokenSeq,
                     req, bg, op, served, ledger, trace, cfg, keyFiles>>

\* Directories, key files and configurations the gate is exercised over.
AuthDirs ==
  {[id \in AcctSet |-> IF id = Accts[1] THEN p
                       ELSE IF id = Accts[2] THEN "oauth" ELSE "absent"] :
     p \in {"oauth", "off", "fixture"}}

IssuedFiles(issued) ==
  [name \in KeyFileNames |->
     IF \E k \in issued : sanitizeKeyFilename(k) = name
     THEN <<NewAPIKey(CHOOSE k \in issued : sanitizeKeyFilename(k) = name)>>
     ELSE <<>>]

\* ------------------------------------- handleNormalResponse / handleStream
\* A text is the sequence of its pieces, so that concatenation, prefixes and
\* the <think> block are real; "" is <<>>.  A line of the upstream body is its
\* text and whether it is longer than bufio.MaxScanTokenSize (64 KiB), which
\* makes scanner.Scan() return false.  The payload of a data line that is
\* JSON is written <<"json", value>>.
TextPart(t) == [text |-> t, thought |-> FALSE, functionCall |-> <<>>]

ThoughtPart(t) == [text |-> t, thought |-> TRUE, functionCall |-> <<>>]

CallPart(f) == [text |-> <<>>, thought |-> FALSE, functionCall |-> <<f>>]

UsageMetadata(u) ==
  [promptTokenCount |-> u[1], candidatesTokenCount |-> u[2], totalTokenCount |-> u[3]]

\* Events the upstream sends: text and thought, a function call before text,
\* usage metadata alone, a <think> block inside the text with usage metadata.
SSEEvents ==
  {[candidates |-> <<[parts |-> <<TextPart(<<"A">>), ThoughtPart(<<"T">>)>>]>>,
    usageMetadata |-> <<>>],
   [candidates |-> <<[parts |-> <<CallPart([id |-> "c1", name |-> "f", args |-> "{}"]),
                                   TextPart(<<"B">>)>>]>>,
    usageMetadata |-> <<UsageMetadata(<<2, 1, 3>>)>>],
   [candidates |-> <<>>, usageMetadata |-> <<UsageMetadata(<<2, 1, 5>>)>>],
   [candidates |-> <<[parts |-> <<TextPart(<<"<think>", "because", "</think>", "final">>)>>]>>,
    usageMetadata |-> <<>>]}

DataLine(payload) == [text |-> <<"data: ">> \o payload, long |-> FALSE]

SSELines ==
  {DataLine(<<"json", e>>) : e \in SSEEvents}
    \cup {DataLine(<<"[DONE]">>), DataLine(<<"{oops">>),
          [text |-> <<": ping">>, long |-> FALSE], [text |-> <<>>, long |-> FALSE],
          [DataLine(<<"json", CHOOSE e \in SSEEvents : e.usageMetadata # <<>>
                                                        /\ e.candidates # <<>>>>)
             EXCEPT !.long = TRUE]}

SSEBodies == UNION {[1..n -> SSELines] : n \in 0..MaxLines}

HasPrefix(text, prefix) == Len(text) > 0 /\ text[1] = prefix

TrimPrefix(text, prefix) == IF HasPrefix(text, prefix) THEN Tail(text) ELSE text

\* json.Unmarshal into a GoogleResponse: <<>> for an error.
UnmarshalGoogleResponse(dataStr) ==
  IF Len(dataStr) = 2 /\ dataStr[1] = "json" THEN <<dataStr[2]>> ELSE <<>>

\* "Track usage metadata": the captured <<input, output, total>>.
TrackUsage(e, captured) ==
  IF e.usageMetadata = <<>> THEN captured
  ELSE <<e.usageMetadata[1].promptTokenCount,
         e.usageMetadata[1].candidatesTokenCount,
         e.usageMetadata[1].totalTokenCount>>

\* The aggregated loop over the parts: the texts with the given thought flag.
RECURSIVE TextOf(_, _)
TextOf(parts, thought) ==
  IF parts = <<>> THEN <<>>
  ELSE (IF Head(parts).text # <<>> /\ Head(parts).thought = thought
        THEN Head(parts).text ELSE <<>>) \o TextOf(Tail(parts), thought)

\* The streaming loop over the parts: one chunk written for every part; an
\* empty Content is left out of the delta (omitempty).
RECURSIVE Chunks(_)
Chunks(parts) ==
  IF parts = <<>> THEN <<>>
  ELSE <<[object |-> "chat.completion.chunk", content |-> Head(parts).text]>>
         \o Chunks(Tail(parts))

NewSSE(stream, lines) ==
  [stream |-> stream, lines |-> lines, pos |-> 1, eof |-> FALSE,
   content |-> <<>>, reasoning |-> <<>>, usage |-> <<0, 0, 0>>, out |-> <<>>]

\* One pass of `for scanner.Scan() { ... }`.
Scan(s) ==
  LET line == s.lines[s.pos]
      next == [s EXCEPT !.pos = @ + 1]
      dataStr == TrimPrefix(line.text, "data: ")
      decoded == UnmarshalGoogleResponse(dataStr)
      e == decoded[1]
      parts == IF Len(e.candidates) > 0 THEN e.candidates[1].parts ELSE <<>>
  IN  IF s.pos > Len(s.lines) THEN [s EXCEPT !.eof = TRUE]
      ELSE IF line.long THEN [s EXCEPT !.eof = TRUE]
      ELSE IF ~HasPrefix(line.text, "data: ") THEN next
      ELSE IF Len(dataStr) = 1 /\ dataStr[1] = "[DONE]" THEN [s EXCEPT !.eof = TRUE]
      ELSE IF decoded = <<>> THEN next
      ELSE IF s.stream
        THEN IF Len(e.candidates) = 0 THEN next
             ELSE [next EXCEPT !.usage = TrackUsage(e, @),
                               !.out = @ \o Chunks(parts)]
      ELSE [next EXCEPT !.content = @ \o TextOf(parts, FALSE),
                        !.reasoning = @ \o TextOf(parts, TRUE),
                        !.usage = TrackUsage(e, @)]

\* len() of a text in bytes.
PieceLen(piece) ==
  CASE piece = "<think>" -> 7 [] piece = "</think>" -> 8
    [] piece = "because" -> 7 [] piece = "final" -> 5 [] OTHER -> 1

RECURSIVE TextLen(_)
TextLen(text) == IF text = <<>> THEN 0 ELSE PieceLen(Head(text)) + TextLen(Tail(text))

Sub(text, from, to) == [k \in 1..(to - from + 1) |-> text[from + k - 1]]

RECURSIVE TrimSpace(_)
TrimSpace(text) ==
  IF text # <<>> /\ Head(text) = " " THEN TrimSpace(Tail(text))
  ELSE IF text # <<>> /\ text[Len(text)] = " " THEN TrimSpace(Sub(text, 1, Len(text) - 1))
  ELSE text

\* regexp `(?s)<think>(.*?)</think>`, FindStringSubmatch: <<>> without a
\* match, else <<from, to>>, the places of the tags of the leftmost match.
FindThink(content) ==
  LET opens == {i \in 1..Len(content) :
                  /\ content[i] = "<think>"
                  /\ \E j \in (i + 1)..Len(content) : content[j] = "</think>"}
      from == CHOOSE i \in opens : \A k \in opens : i <= k
      to == CHOOSE j \in (from + 1)..Len(content) :
              /\ content[j] = "</think>"
              /\ \A k \in (from + 1)..(j - 1) : content[k] # "</think>"
  IN  IF opens = {} THEN <<>> ELSE <<from, to>>

\* The reasoning fallback after the loop of handleNormalResponse: with an
\* empty reasoning and a match, the trimmed group becomes the reasoning and
\* the match is taken out of the content, which is trimmed.
ExtractThink_KeepBlock(content, reasoning) ==
  LET m == FindThink(content)
  IN  IF reasoning = <<>> /\ m # <<>>
      THEN [content |-> TrimSpace(content),
            reasoning |-> TrimSpace(Sub(content, m[1] + 1, m[2] - 1))]
      ELSE [content |-> content, reasoning |-> reasoning]

ExtractThink(content, reasoning) ==
  LET m == FindThink(content)
  IN  IF reasoning = <<>> /\ m # <<>>
      THEN [content |-> TrimSpace(Sub(content, 1, m[1] - 1)
                                    \o Sub(content, m[2] + 1, Len(content))),
            reasoning |-> TrimSpace(Sub(content, m[1] + 1, m[2] - 1))]
      ELSE [content |-> content, reasoning |-> reasoning]

\* After the loop of handleNormalResponse: the token estimate, the reasoning
\* fallback and the ChatCompletionResponse.
ChatCompletionResponse(s) ==
  LET total == IF s.usage[3] = 0 THEN TextLen(s.content) \div 4 ELSE s.usage[3]
      output == IF s.usage[3] = 0 THEN total ELSE s.usage[2]
      x == ExtractThink(s.content, s.reasoning)
  IN  [object |-> "chat.completion",
       content |-> x.content,
       reasoning |-> x.reasoning,
       toolCalls |-> <<>>,
       finishReason |-> "stop",
       usage |-> <<s.usage[1], output, total>>]

\* What the handler writes after the usage has been recorded.
EndOfResponse(s) ==
  IF s.stream THEN [s EXCEPT !.out = Append(@, [object |-> "[DONE]", content |-> <<>>])]
  ELSE [s EXCEPT !.out = <<ChatCompletionResponse(s)>>]

\* ---------------------------------------------------------- handler locals
IdleReq ==
  [pc |-> "idle", attempt |-> 0, accountIDs |-> <<>>, i |-> 0, idx |-> 0,
   account |-> <<>>, lastErr |-> "", captured |-> <<0, 0, 0>>,
   record |-> <<>>, resp |-> <<>>, acquires |-> 0, log |-> <<>>, sse |-> <<>>]

IdleBg == [pc |-> "wait", accountIDs |-> <<>>, i |-> 0, account |-> <<>>, runs |-> 0]

IdleOp == [pc |-> "idle", account |-> <<>>, enable |-> FALSE]

\* The log of a request lists its upstream calls: the account used, the status
\* (0 for a transport error) and the body when the handler answers with it.
\* History kept for the properties: the last outcome recorded (op) and when
\* (at), the generic failures (streak) and 429s (limits) recorded since the
\* last success, the backoff stored before the last outcome (prev), and the
\* accounts GetToken returned to a caller that calls it in a row (returned),
\* and the argument and the result of the last call made on its own (arg,
\* result).
NoTrace ==
  [op |-> "", at |-> 0, streak |-> 0, limits |-> 0, prev |-> 0,
   returned |-> <<>>, arg |-> <<>>, result |-> <<>>]

\* Account files as they can lie in the directory when the server starts:
\* written by the OAuth callback, the same with a token about to expire,
\* written without the optional blocks (the tests' createTestAccount),
\* disabled, in a cooldown, written by the OAuth callback and switched off in
\* the admin console, the same with a lapsed token, with a lapsed token whose
\* refresh has just failed, or no file at all.
Profiles == {"oauth", "stale", "fixture"}

ProfileFile(id, profile) ==
  CASE profile = "oauth"    -> <<NewAccount(id, StartTime)>>
    [] profile = "stale"    -> <<NewAccount(id, StartTime - TokenLifetime)>>
    [] profile = "fixture"  -> <<TestAccount(id, TRUE, FALSE, StartTime)>>
    [] profile = "disabled" -> <<TestAccount(id, FALSE, FALSE, StartTime)>>
    [] profile = "cooling"  -> <<TestAccount(id, TRUE, TRUE, StartTime)>>
    [] profile = "off"      -> <<[NewAccount(id, StartTime) EXCEPT !.enable = FALSE]>>
    [] profile = "lapsed_off" ->
         <<[NewAccount(id, StartTime - TokenLifetime) EXCEPT !.enable = FALSE]>>
    [] profile = "lapsed_cooling" ->
         <<RefreshFailed(NewAccount(id, StartTime - TokenLifetime),
                         "token endpoint unreachable", StartTime)>>
    [] profile = "absent"   -> <<>>

\* Directories the serving runs start from: the first account of every kind
\* next to an account the OAuth callback created.
InitialDirs ==
  {[id \in AcctSet |-> IF id = Accts[1] THEN p
                       ELSE IF id = Accts[2] THEN "oauth" ELSE "absent"] : p \in Profiles}

\* The state after server.New over directory dir, with budget b for the run.
StartedOn(dir, cursor, b) ==
  /\ store = [id \in AcctSet |-> ProfileFile(id, dir[id])]
  /\ usageFiles = EmptyDir
  /\ currentIndex = cursor
  /\ now = StartTime
  /\ budget = b
  /\ tokenSeq = 0
  /\ req = [r \in Reqs |-> IdleReq]
  /\ bg = IdleBg
  /\ op = IdleOp
  /\ served = [id \in AcctSet |-> 0]
  /\ ledger = EmptyDir
  /\ trace = NoTrace
  /\ cfg = [apiKey |-> <<>>]
  /\ keyFiles = [name \in KeyFileNames |-> <<>>]
  /\ gate = [c \in Callers |-> IdleGate]
  /\ serve = "serving"

Started(b) == \E dir \in InitialDirs : StartedOn(dir, 0, b)

\* Concurrent requests against the pool while the clock runs.
Init ==
  Started([requests |-> Len(Arrivals), faults |-> MaxFaults, acquires |-> MaxAcquires,
           ticks |-> MaxTicks, ops |-> 0, bgRuns |-> 0])

\* One request that may use all its attempts; the budget leaves room for one
\* GetToken call more than the loop allows.
InitSeq ==
  Started([requests |-> 1, faults |-> MaxSeqFaults, acquires |-> maxRetries + 1,
           ticks |-> MaxTicks, ops |-> 0, bgRuns |-> 0])

\* Two requests over a pool in which only the second account is usable at
\* once (the first is disabled, or its token must be refreshed first).
RaceDirs ==
  {[id \in AcctSet |-> IF id = Accts[1] THEN p
                       ELSE IF id = Accts[2] THEN "oauth" ELSE "absent"] :
     p \in {"stale", "disabled"}}

InitRace ==
  \E dir \in RaceDirs :
    StartedOn(dir, 0, [requests |-> Len(Arrivals), faults |-> MaxRaceFaults,
                       acquires |-> MaxRaceAcquires, ticks |-> 0, ops |-> 0,
                       bgRuns |-> 0])

\* Two concurrent GetToken calls over every pool of usable, disabled and
\* missing accounts, while the operator may delete an account.
PoolDirs == [AcctSet -> {"fixture", "disabled", "absent"}]

InitPool ==
  \E dir \in PoolDirs, cursor \in 0..(Len(Accts) - 1) :
    StartedOn(dir, cursor, [requests |-> Len(Arrivals), faults |-> 0,
                            acquires |-> MaxPoolCalls, ticks |-> 0,
                            ops |-> MaxPoolOps, bgRuns |-> 0])

\* Callers at the gate of GET /v1/models; the proxy itself is at rest.
InitAuth ==
  \E dir \in AuthDirs, issued \in SUBSET IssuedKeys, static \in {<<>>, StaticKey} :
    /\ store = [id \in AcctSet |-> ProfileFile(id, dir[id])]
    /\ usageFiles = EmptyDir
    /\ currentIndex = 0
    /\ now = StartTime
    /\ budget = [requests |-> 0, faults |-> 0, acquires |-> 0,
                 ticks |-> 0, ops |-> 0, bgRuns |-> 0]
    /\ tokenSeq = 0
    /\ req = [r \in Reqs |-> IdleReq]
    /\ bg = IdleBg
    /\ op = IdleOp
    /\ served = [id \in AcctSet |-> 0]
    /\ ledger = EmptyDir
    /\ trace = NoTrace
    /\ cfg = [apiKey |-> static]
    /\ keyFiles = IssuedFiles(issued)
    /\ gate = [c \in Callers |-> IdleGate]
    /\ serve = "serving"

\* One request beside the admin console and the background refresher.
InitAdmin ==
  Started([requests |-> 1, faults |-> MaxFaults, acquires |-> MaxAcquires,
           ticks |-> MaxTicks, ops |-> MaxOps, bgRuns |-> MaxBgRuns])

\* --------------------------------------------------- server.chatCompletions
Holding(q) == q.account[1]

\* Locals that are dead once GetToken has returned, or once the attempt or the
\* handler has ended, are reset: nothing reads them again.
LeftGetToken(q) == [q EXCEPT !.accountIDs = <<>>, !.i = 0, !.idx = 0]

LeftAttempt(q) ==
  [LeftGetToken(q) EXCEPT !.account = <<>>, !.captured = <<0, 0, 0>>, !.record = <<>>]

\* gin.Recovery turns a panic of the handler into an empty 500 response.
Recovered(q) ==
  [LeftAttempt(q) EXCEPT !.pc = "done",
            !.resp = <<[status |-> 500, details |-> "panic", retries |-> 0,
                        from |-> ""]>>]

Respond(q, status, details, retries) ==
  [LeftAttempt(q) EXCEPT !.pc = "done",
            !.resp = <<[status |-> status, details |-> details, retries |-> retries,
                        from |-> IF q.account = <<>> THEN "" ELSE Holding(q).accountId]>>]

\* `continue`: the loop's post statement, then the loop condition.
NextAttempt(q, err) ==
  [LeftAttempt(q) EXCEPT !.pc = "loop", !.attempt = @ + 1, !.lastErr = err]

\* Requests are named in their order of arrival.
Begin(r) ==
  /\ req[r].pc = "idle"
  /\ \A k \in 1..Len(Arrivals) :
       Arrivals[k] = r => \A j \in 1..(k - 1) : req[Arrivals[j]].pc # "idle"
  /\ budget.requests > 0
  /\ budget' = [budget EXCEPT !.requests = @ - 1]
  /\ req' = [req EXCEPT ![r].pc = "loop"]
  /\ UNCHANGED <<serve, cfg, keyFiles, gate, store, usageFiles, currentIndex, now, tokenSeq,
                 bg, op, served, ledger, trace>>

\* GetToken, entry: enumerate the directory.
GetTokenList(r) ==
  LET q == req[r]
      ids == List(store)
  IN  /\ q.pc = "loop"
      /\ q.attempt < maxRetries
      /\ budget.acquires > 0
      /\ budget' = [budget EXCEPT !.acquires = @ - 1]
      /\ req' = [req EXCEPT ![r] =
                   IF Len(ids) = 0
                   THEN [q EXCEPT !.pc = "sleep", !.acquires = @ + 1,
                                  !.lastErr = "no accounts available"]
                   ELSE [q EXCEPT !.pc = "advance", !.acquires = @ + 1,
                                  !.accountIDs = ids, !.i = 0]]
      /\ UNCHANGED <<serve, cfg, keyFiles, gate, store, usageFiles, currentIndex, now, tokenSeq,
                     bg, op, served, ledger, trace>>

\* GetToken, loop condition and the read of c.currentIndex.
GetTokenAdvance(r) ==
  LET q == req[r]
  IN  /\ q.pc = "advance"
      /\ req' = [req EXCEPT ![r] =
                   IF q.i < Len(q.accountIDs)
                   THEN [q EXCEPT !.pc = "store_index", !.idx = currentIndex]
                   ELSE [LeftGetToken(q) EXCEPT !.pc = "sleep",
                                  !.lastErr = "no valid accounts available"]]
      /\ UNCHANGED <<serve, cfg, keyFiles, gate, store, usageFiles, currentIndex, now, budget, tokenSeq,
                     bg, op, served, ledger, trace>>

NextIndex_Stuck(idx, n) == idx % n

NextIndex(idx, n) == (idx + 1) % n

\* GetToken: the write `c.currentIndex = (c.currentIndex + 1) % len(accountIDs)`.
GetTokenStoreIndex(r) ==
  LET q == req[r]
  IN  /\ q.pc = "store_index"
      /\ currentIndex' = NextIndex(q.idx, Len(q.accountIDs))
      /\ req' = [req EXCEPT ![r] = [q EXCEPT !.pc = "pick",
                                             !.idx = NextIndex(q.idx, Len(q.accountIDs))]]
      /\ UNCHANGED <<serve, cfg, keyFiles, gate, store, usageFiles, now, budget, tokenSeq,
                     bg, op, served, ledger, trace>>

\* GetToken: `accountIDs[c.currentIndex]`, Load and the skip policy.
GetTokenPick(r) ==
  LET q == req[r]
      id == q.accountIDs[currentIndex + 1]
      c == Candidate(store, id, now)
  IN  /\ q.pc = "pick"
      /\ req' = [req EXCEPT ![r] =
                   IF currentIndex >= Len(q.accountIDs) THEN Recovered(q)
                   ELSE IF c = "ok"
                     THEN [LeftGetToken(q) EXCEPT !.pc = "call", !.account = Load(store, id)]
                   ELSE IF c = "refresh"
                     THEN [q EXCEPT !.pc = "refreshing", !.account = Load(store, id)]
                   ELSE [q EXCEPT !.pc = "advance", !.i = @ + 1]]
      /\ UNCHANGED <<serve, cfg, keyFiles, gate, store, usageFiles, currentIndex, now, budget, tokenSeq,
                     bg, op, served, ledger, trace>>

\* GetToken: RefreshToken returned nil; the refreshed account is selected.
GetTokenRefreshed(r) ==
  LET q == req[r]
  IN  /\ q.pc = "refreshing"
      /\ \E rotate \in BOOLEAN, fetched \in Fetched(Holding(q).accountId) :
           LET a == RefreshSucceeded(Holding(q), now, tokenSeq + 1,
                                     IF rotate THEN <<tokenSeq + 1>> ELSE <<>>,
                                     fetched)
           IN  /\ store' = Save(store, a)
               /\ req' = [req EXCEPT ![r] =
                             [LeftGetToken(q) EXCEPT !.pc = "call", !.account = <<a>>]]
      /\ tokenSeq' = tokenSeq + 1
      /\ UNCHANGED <<serve, cfg, keyFiles, gate, usageFiles, currentIndex, now, budget,
                     bg, op, served, ledger, trace>>

\* GetToken: RefreshToken returned an error; the candidate is skipped.
GetTokenRefreshFailed(r) ==
  LET q == req[r]
  IN  /\ q.pc = "refreshing"
      /\ budget.faults > 0
      /\ budget' = [budget EXCEPT !.faults = @ - 1]
      /\ \E err \in RefreshErrors :
           store' = Save(store, RefreshFailed(Holding(q), err, now))
      /\ req' = [req EXCEPT ![r] = [q EXCEPT !.pc = "advance", !.i = @ + 1,
                                             !.account = <<>>]]
      /\ UNCHANGED <<serve, cfg, keyFiles, gate, usageFiles, currentIndex, now, tokenSeq,
                     bg, op, served, ledger, trace>>

\* client.Do failed (DNS, TCP, TLS, timeout).
CallTransportError(r) ==
  LET q == req[r]
      a == RecordFailure(Holding(q), "transport", now)
  IN  /\ q.pc = "call"
      /\ budget.faults > 0
      /\ budget' = [budget EXCEPT !.faults = @ - 1]
      /\ store' = Save(store, a)
      /\ req' = [req EXCEPT ![r] =
                   NextAttempt([q EXCEPT !.account = <<a>>,
                                         !.log = Append(@, <<a.accountId, 0, "">>)],
                               "transport")]
      /\ UNCHANGED <<serve, cfg, keyFiles, gate, usageFiles, currentIndex, now, tokenSeq,
                     bg, op, served, ledger, trace>>

\* Status 429.  The log call reads account.ErrorTracking.RateLimitCount before
\* RecordRateLimit runs: a nil ErrorTracking panics there.
CallRateLimited(r) ==
  LET q == req[r]
      a == RecordRateLimit(Holding(q), now)
      c == [q EXCEPT !.log = Append(@, <<a.accountId, 429, "">>)]
  IN  /\ q.pc = "call"
      /\ budget.faults > 0
      /\ budget' = [budget EXCEPT !.faults = @ - 1]
      /\ IF Holding(q).errorTracking = <<>>
         THEN /\ req' = [req EXCEPT ![r] = Recovered(c)]
              /\ store' = store
         ELSE /\ req' = [req EXCEPT ![r] =
                           NextAttempt([c EXCEPT !.account = <<a>>], "rate limit exceeded")]
              /\ store' = Save(store, a)
      /\ UNCHANGED <<serve, cfg, keyFiles, gate, usageFiles, currentIndex, now, tokenSeq,
                     bg, op, served, ledger, trace>>

\* Status 403.
CallPermissionDenied(r) ==
  LET q == req[r]
      a == RecordPermissionDenied(Holding(q), now)
  IN  /\ q.pc = "call"
      /\ budget.faults > 0
      /\ budget' = [budget EXCEPT !.faults = @ - 1]
      /\ store' = Save(store, a)
      /\ req' = [req EXCEPT ![r] =
                   NextAttempt([q EXCEPT !.account = <<a>>,
                                         !.log = Append(@, <<a.accountId, 403, "">>)],
                               "permission denied")]
      /\ UNCHANGED <<serve, cfg, keyFiles, gate, usageFiles, currentIndex, now, tokenSeq,
                     bg, op, served, ledger, trace>>

\* Any other status that is not 200: 4xx is passed through with the upstream
\* body, the rest is retried.
OtherStatuses == {204, 400, 500}

IsClientError_None(status) == FALSE

IsClientError_Any(status) == status >= 400

\* `resp.StatusCode >= 400 && resp.StatusCode < 500`
IsClientError(status) == status >= 400 /\ status < 500

CallOtherStatus(r) ==
  LET q == req[r]
      a == RecordFailure(Holding(q), "HTTP", now)
  IN  /\ q.pc = "call"
      /\ budget.faults > 0
      /\ budget' = [budget EXCEPT !.faults = @ - 1]
      /\ store' = Save(store, a)
      /\ \E status \in OtherStatuses, body \in Bodies :
           req' = [req EXCEPT ![r] =
                     IF IsClientError(status)
                     THEN Respond([q EXCEPT !.account = <<a>>,
                                            !.log = Append(@, <<a.accountId, status, body>>)],
                                  status, body, 0)
                     ELSE NextAttempt([q EXCEPT !.account = <<a>>,
                                                !.log = Append(@, <<a.accountId, status, "">>)],
                                      "HTTP")]
      /\ UNCHANGED <<serve, cfg, keyFiles, gate, usageFiles, currentIndex, now, tokenSeq,
                     bg, op, served, ledger, trace>>

\* Status 200: success is recorded and saved before the body is read.
CallOK(r) ==
  LET q == req[r]
      a == RecordSuccess(Holding(q), now)
  IN  /\ q.pc = "call"
      /\ store' = Save(store, a)
      /\ req' = [req EXCEPT ![r] = [q EXCEPT !.pc = "body", !.account = <<a>>,
                                             !.log = Append(@, <<a.accountId, 200, "">>)]]
      /\ UNCHANGED <<serve, cfg, keyFiles, gate, usageFiles, currentIndex, now, budget, tokenSeq,
                     bg, op, served, ledger, trace>>

\* handleNormalResponse / handleStreamResponse, "Record usage in account".
AddAccountUsage(a, u) ==
  IF a.usage = <<>> THEN a
  ELSE [a EXCEPT !.usage = <<[a.usage[1] EXCEPT !.totalTokens = @ + u[3],
                                                 !.inputTokens = @ + u[1],
                                                 !.outputTokens = @ + u[2],
                                                 !.requestCount = @ + 1]>>]

\* The body has been read to its end with the usage u of its last usage
\* metadata captured; the account block is updated and saved.
ReadBody(r) ==
  LET q == req[r]
  IN  /\ q.pc = "body"
      /\ \E u \in UsageTriples :
           LET a == AddAccountUsage(Holding(q), u)
           IN  /\ req' = [req EXCEPT ![r] = [q EXCEPT !.pc = "usage_read",
                                                      !.account = <<a>>,
                                                      !.captured = u]]
               /\ store' = IF Holding(q).usage = <<>> THEN store ELSE Save(store, a)
      /\ served' = IF Holding(q).usage = <<>> THEN served
                   ELSE [served EXCEPT ![Holding(q).accountId] = @ + 1]
      /\ UNCHANGED <<serve, cfg, keyFiles, gate, usageFiles, currentIndex, now, budget, tokenSeq,
                     bg, op, ledger, trace>>

\* UsageStore.RecordUsage, first half: today's date and os.ReadFile.
RecordUsageRead(r) ==
  LET q == req[r]
      key == <<DateOf(now), Holding(q).accountId>>
      old == IF key \in DOMAIN ledger THEN ledger[key]
             ELSE NewUsageRecord(key[1], key[2])
  IN  /\ q.pc = "usage_read"
      /\ req' = [req EXCEPT ![r] =
                   [q EXCEPT !.pc = "usage_write",
                             !.record = <<ReadUsage(usageFiles, key[1], key[2])>>]]
      /\ ledger' = (key :> AddUsage(old, q.captured[1], q.captured[2])) @@ ledger
      /\ UNCHANGED <<serve, cfg, keyFiles, gate, store, usageFiles, currentIndex, now, budget, tokenSeq,
                     bg, op, served, trace>>

\* UsageStore.RecordUsage, second half: os.WriteFile; then the response ends.
RecordUsageWrite(r) ==
  LET q == req[r]
  IN  /\ q.pc = "usage_write"
      /\ usageFiles' = WriteUsage(usageFiles,
                                  AddUsage(q.record[1], q.captured[1], q.captured[2]))
      /\ req' = [req EXCEPT ![r] =
                   [Respond(q, 200, "", 0) EXCEPT
                      !.sse = IF @ = <<>> THEN @ ELSE <<EndOfResponse(@[1])>>]]
      /\ UNCHANGED <<serve, cfg, keyFiles, gate, store, currentIndex, now, budget, tokenSeq,
                     bg, op, served, ledger, trace>>

\* The handler is given the upstream body and the caller's stream flag.
Dispatch(r) ==
  LET q == req[r]
  IN  /\ q.pc = "body"
      /\ q.sse = <<>>
      /\ \E stream \in BOOLEAN, lines \in SSEBodies :
           req' = [req EXCEPT ![r] = [q EXCEPT !.sse = <<NewSSE(stream, lines)>>]]
      /\ UNCHANGED <<serve, cfg, keyFiles, gate, store, usageFiles, currentIndex, now, budget,
                     tokenSeq, bg, op, served, ledger, trace>>

ScanLine(r) ==
  LET q == req[r]
  IN  /\ q.pc = "body"
      /\ q.sse # <<>>
      /\ ~q.sse[1].eof
      /\ req' = [req EXCEPT ![r] = [q EXCEPT !.sse = <<Scan(q.sse[1])>>]]
      /\ UNCHANGED <<serve, cfg, keyFiles, gate, store, usageFiles, currentIndex, now, budget,
                     tokenSeq, bg, op, served, ledger, trace>>

\* The loop has ended; the account block is updated with the captured usage
\* and saved.
BodyDone(r) ==
  LET q == req[r]
      a == AddAccountUsage(Holding(q), q.sse[1].usage)
  IN  /\ q.pc = "body"
      /\ q.sse # <<>>
      /\ q.sse[1].eof
      /\ req' = [req EXCEPT ![r] = [q EXCEPT !.pc = "usage_read", !.account = <<a>>,
                                             !.captured = q.sse[1].usage]]
      /\ store' = IF Holding(q).usage = <<>> THEN store ELSE Save(store, a)
      /\ served' = IF Holding(q).usage = <<>> THEN served
                   ELSE [served EXCEPT ![Holding(q).accountId] = @ + 1]
      /\ UNCHANGED <<serve, cfg, keyFiles, gate, usageFiles, currentIndex, now, budget, tokenSeq,
                     bg, op, ledger, trace>>

\* time.Sleep after a failed GetToken has elapsed.
Wake(r) ==
  LET q == req[r]
  IN  /\ q.pc = "sleep"
      /\ req' = [req EXCEPT ![r] = NextAttempt(q, q.lastErr)]
      /\ UNCHANGED <<serve, cfg, keyFiles, gate, store, usageFiles, currentIndex, now, budget, tokenSeq,
                     bg, op, served, ledger, trace>>

\* The loop ended without a response: 503 with the last error.
Exhausted(r) ==
  LET q == req[r]
  IN  /\ q.pc = "loop"
      /\ q.attempt >= maxRetries
      /\ req' = [req EXCEPT ![r] = Respond(q, 503, q.lastErr, maxRetries)]
      /\ UNCHANGED <<serve, cfg, keyFiles, gate, store, usageFiles, currentIndex, now, budget, tokenSeq,
                     bg, op, served, ledger, trace>>

\* ------------------------------------------------- Client.RefreshAllTokens
\* The scheduler runs once at start and then on every tick of its ticker.
BgStart ==
  /\ bg.pc = "wait"
  /\ bg.runs < budget.bgRuns
  /\ now - StartTime >= bg.runs * RefreshPeriod
  /\ bg' = [bg EXCEPT !.pc = "scan", !.accountIDs = List(store), !.i = 1]
  /\ UNCHANGED <<serve, cfg, keyFiles, gate, store, usageFiles, currentIndex, now, budget, tokenSeq,
                 req, op, served, ledger, trace>>

BgScan ==
  /\ bg.pc = "scan"
  /\ bg' = IF bg.i > Len(bg.accountIDs)
           THEN [bg EXCEPT !.pc = "wait", !.runs = @ + 1, !.accountIDs = <<>>, !.i = 0]
           ELSE IF Candidate(store, bg.accountIDs[bg.i], now) = "refresh"
           THEN [bg EXCEPT !.pc = "refreshing",
                           !.account = Load(store, bg.accountIDs[bg.i])]
           ELSE [bg EXCEPT !.i = @ + 1]
  /\ UNCHANGED <<serve, cfg, keyFiles, gate, store, usageFiles, currentIndex, now, budget, tokenSeq,
                 req, op, served, ledger, trace>>

BgRefreshed ==
  /\ bg.pc = "refreshing"
  /\ \E rotate \in BOOLEAN, fetched \in Fetched(bg.account[1].accountId) :
       LET a == RefreshSucceeded(bg.account[1], now, tokenSeq + 1,
                                 IF rotate THEN <<tokenSeq + 1>> ELSE <<>>,
                                 fetched)
       IN  /\ store' = Save(store, a)
           /\ bg' = [bg EXCEPT !.pc = "scan", !.i = @ + 1, !.account = <<>>]
  /\ tokenSeq' = tokenSeq + 1
  /\ UNCHANGED <<serve, cfg, keyFiles, gate, usageFiles, currentIndex, now, budget,
                 req, op, served, ledger, trace>>

BgRefreshFailed ==
  /\ bg.pc = "refreshing"
  /\ budget.faults > 0
  /\ budget' = [budget EXCEPT !.faults = @ - 1]
  /\ \E err \in RefreshErrors :
       store' = Save(store, RefreshFailed(bg.account[1], err, now))
  /\ bg' = [bg EXCEPT !.pc = "scan", !.i = @ + 1, !.account = <<>>]
  /\ UNCHANGED <<serve, cfg, keyFiles, gate, usageFiles, currentIndex, now, tokenSeq,
                 req, op, served, ledger, trace>>

\* ------------------------------------------------ admin console (operator)
\* toggleToken, first half: os.ReadFile and json.Unmarshal into a map.
ToggleRead(id, enable) ==
  /\ op.pc = "idle"
  /\ budget.ops > 0
  /\ budget' = [budget EXCEPT !.ops = @ - 1]
  /\ Load(store, id) # <<>>
  /\ op' = [op EXCEPT !.pc = "toggle_write", !.account = Load(store, id),
                      !.enable = enable]
  /\ UNCHANGED <<serve, cfg, keyFiles, gate, store, usageFiles, currentIndex, now, tokenSeq,
                 req, bg, served, ledger, trace>>

\* toggleToken, second half: only the "enable" key is changed, then os.WriteFile.
ToggleWrite ==
  /\ op.pc = "toggle_write"
  /\ store' = Save(store, [op.account[1] EXCEPT !.enable = op.enable])
  /\ op' = [op EXCEPT !.pc = "idle", !.account = <<>>]
  /\ UNCHANGED <<serve, cfg, keyFiles, gate, usageFiles, currentIndex, now, budget, tokenSeq,
                 req, bg, served, ledger, trace>>

\* deleteToken: os.Remove.
DeleteToken(id) ==
  /\ op.pc = "idle"
  /\ budget.ops > 0
  /\ budget' = [budget EXCEPT !.ops = @ - 1]
  /\ Load(store, id) # <<>>
  /\ store' = Delete(store, id)
  /\ UNCHANGED <<serve, cfg, keyFiles, gate, usageFiles, currentIndex, now, tokenSeq,
                 req, bg, op, served, ledger, trace>>

\* -------------------------------------------------------------------- time
\* The clock advances only while every goroutine waits on the network, sleeps or
\* is idle: the steps between two such points take no time.  It is advanced
\* only while some cooldown is running: the stored times are compared with
\* the clock in IsInCooldown, and the steps are far from a token's expiry and
\* from midnight.
CoolingDown(id) == Load(store, id) # <<>> /\ IsInCooldown(Load(store, id)[1], now)

Waiting ==
  /\ \A r \in Reqs : req[r].pc \in {"idle", "refreshing", "call", "body", "sleep", "done"}
  /\ bg.pc \in {"wait", "refreshing"}
  /\ op.pc = "idle"

Tick ==
  /\ budget.ticks > 0
  /\ Waiting
  /\ \E id \in AcctSet : CoolingDown(id)
  /\ \E d \in TickSteps : now' = now + d
  /\ budget' = [budget EXCEPT !.ticks = @ - 1]
  /\ UNCHANGED <<serve, cfg, keyFiles, gate, store, usageFiles, currentIndex, tokenSeq,
                 req, bg, op, served, ledger, trace>>

\* ------------------------------------------- outcomes recorded one at a time
\* The load-modify-save that follows each outcome (in chatCompletions and in
\* RefreshToken), taken on its own: the Account method on the loaded record,
\* then Save.
Stored(id) == Load(store, id)[1]

Outcome(a, kind, streak, limits) ==
  /\ store' = Save(store, a)
  /\ trace' = [trace EXCEPT !.op = kind, !.at = now, !.streak = streak,
                            !.limits = limits,
                            !.prev = ET(Stored(a.accountId)).rateLimitBackoff]
  /\ UNCHANGED <<serve, cfg, keyFiles, gate, usageFiles, currentIndex, now, budget, tokenSeq,
                 req, bg, op, served, ledger>>

SuccessRecorded(id) ==
  /\ Load(store, id) # <<>>
  /\ Outcome(RecordSuccess(Stored(id), now), "success", 0, 0)

FailureRecorded(id) ==
  /\ Load(store, id) # <<>>
  /\ trace.streak < MaxStreak
  /\ Outcome(RecordFailure(Stored(id), "HTTP", now), "failure",
             trace.streak + 1, trace.limits)

RateLimitRecorded(id) ==
  /\ Load(store, id) # <<>>
  /\ trace.limits < MaxRateLimits
  /\ Outcome(RecordRateLimit(Stored(id), now), "rate_limit",
             trace.streak, trace.limits + 1)

PermissionDeniedRecorded(id) ==
  /\ Load(store, id) # <<>>
  /\ Outcome(RecordPermissionDenied(Stored(id), now), "permission_denied",
             trace.streak, trace.limits)

\* One account file, written by the OAuth callback or without its optional
\* blocks.
RecordDirs ==
  {[id \in AcctSet |-> IF id = Accts[1] THEN p ELSE "absent"] : p \in {"oauth", "fixture"}}

InitRecord ==
  \E dir \in RecordDirs :
    StartedOn(dir, 0, [requests |-> 0, faults |-> 0, acquires |-> 0,
                       ticks |-> MaxTicks, ops |-> 0, bgRuns |-> 0])

\* ------------------------------------------------ GetToken called in a row
\* A single caller that calls GetToken again as soon as it returned, as
\* TestGetToken_Rotation does; nothing else touches the store.
Reacquire(r) ==
  LET q == req[r]
  IN  /\ q.pc = "call"
      /\ Len(trace.returned) < MaxCalls
      /\ trace' = [trace EXCEPT !.returned = Append(@, Holding(q).accountId)]
      /\ req' = [req EXCEPT ![r] = [LeftAttempt(q) EXCEPT !.pc = "loop"]]
      /\ UNCHANGED <<serve, cfg, keyFiles, gate, store, usageFiles, currentIndex, now, budget, tokenSeq,
                     bg, op, served, ledger>>

\* Every directory of healthy, disabled, cooling and missing accounts, and
\* every cursor value an earlier call can have left.
RotationDirs == [AcctSet -> {"fixture", "disabled", "cooling", "absent"}]

InitRR ==
  \E dir \in RotationDirs, cursor \in 0..(Len(Accts) - 1) :
    StartedOn(dir, cursor, [requests |-> 1, faults |-> 0, acquires |-> MaxCalls,
                            ticks |-> 0, ops |-> 0, bgRuns |-> 0])

\* ------------------------------------------- AccountStore called on its own
\* Save, Load, List and Delete called one after the other, as
\* TestAccountStore does, with every kind of record the program writes.
StoreIds == {Accts[1], Accts[2]}

StoreRecords ==
  LET written == {ProfileFile(id, p)[1] :
                    id \in StoreIds,
                    p \in {"oauth", "stale", "fixture", "disabled", "cooling", "off"}}
      used == {a \in written : a.enable /\ ~IsInCooldown(a, StartTime)}
  IN  written
        \cup {RecordFailure(a, "HTTP", StartTime) : a \in used}
        \cup {RecordRateLimit(a, StartTime) : a \in used}
        \cup {RecordPermissionDenied(a, StartTime) : a \in used}
        \cup {[a EXCEPT !.models = {}] : a \in used}

Called(kind, arg, result) ==
  /\ trace' = [trace EXCEPT !.op = kind, !.arg = arg, !.result = result]
  /\ UNCHANGED <<serve, cfg, keyFiles, gate, usageFiles, currentIndex, now, budget,
                 tokenSeq, req, bg, op, served, ledger>>

StoreSave(a) ==
  /\ store' = Save(store, a)
  /\ Called("save", <<a>>, <<"ok">>)

StoreLoad(id) ==
  /\ store' = store
  /\ Called("load", <<id>>, IF Load(store, id) = <<>> THEN <<"not_exist">>
                            ELSE <<"ok", Load(store, id)[1]>>)

StoreList ==
  /\ store' = store
  /\ Called("list", <<>>, List(store))

\* os.Remove fails with ErrNotExist when the file is absent.
StoreDelete(id) ==
  /\ store' = Delete(store, id)
  /\ Called("delete", <<id>>, IF Load(store, id) = <<>> THEN <<"not_exist">>
                              ELSE <<"ok">>)

InitStore ==
  \E dir \in PoolDirs :
    StartedOn(dir, 0, [requests |-> 0, faults |-> 0, acquires |-> 0,
                       ticks |-> 0, ops |-> 0, bgRuns |-> 0])

\* ------------------------------------------- RefreshToken called on its own
\* RefreshToken on the record as stored, for an account its callers hand it
\* (one that needs refresh), with what the token endpoint answered kept in
\* the history.
RefreshDirs ==
  {[id \in AcctSet |-> IF id = Accts[1] THEN p
                       ELSE IF id = Accts[2] THEN q ELSE "absent"] :
     p \in {"stale", "lapsed_cooling"}, q \in {"stale", "oauth"}}

InitRefresh ==
  \E dir \in RefreshDirs :
    StartedOn(dir, 0, [requests |-> 0, faults |-> MaxFaults, acquires |-> 0,
                       ticks |-> MaxRefreshTicks, ops |-> 0, bgRuns |-> 0])

TokenRefreshed(id) ==
  /\ Load(store, id) # <<>>
  /\ NeedsRefresh(Stored(id), now)
  /\ tokenSeq < MaxGrants
  /\ tokenSeq' = tokenSeq + 1
  /\ \E rotate \in BOOLEAN, fetched \in Fetched(id) :
       LET refresh == IF rotate THEN <<tokenSeq + 1>> ELSE <<>>
       IN  /\ store' = Save(store, RefreshSucceeded(Stored(id), now, tokenSeq + 1,
                                                    refresh, fetched))
           /\ trace' = [trace EXCEPT !.op = "refreshed", !.at = now,
                                     !.arg = <<id, tokenSeq + 1, refresh>>]
  /\ UNCHANGED <<serve, cfg, keyFiles, gate, usageFiles, currentIndex, now, budget,
                 req, bg, op, served, ledger>>

TokenRefreshFailed(id) ==
  /\ Load(store, id) # <<>>
  /\ NeedsRefresh(Stored(id), now)
  /\ budget.faults > 0
  /\ budget' = [budget EXCEPT !.faults = @ - 1]
  /\ \E err \in RefreshErrors :
       /\ store' = Save(store, RefreshFailed(Stored(id), err, now))
       /\ trace' = [trace EXCEPT !.op = "refresh_failed", !.at = now,
                                 !.arg = <<id, err>>]
  /\ UNCHANGED <<serve, cfg, keyFiles, gate, usageFiles, currentIndex, now, tokenSeq,
                 req, bg, op, served, ledger>>

\* A refresh period passes.
Elapse ==
  /\ budget.ticks > 0
  /\ budget' = [budget EXCEPT !.ticks = @ - 1]
  /\ now' = now + RefreshPeriod
  /\ UNCHANGED <<serve, cfg, keyFiles, gate, store, usageFiles, currentIndex, tokenSeq,
                 req, bg, op, served, ledger, trace>>

\* --------------------------------------------- one answered upstream call
\* One request whose upstream call is answered 200 with every body of a few
\* lines, in either mode.
SSEDirs ==
  {[id \in AcctSet |-> IF id = Accts[1] THEN p ELSE "absent"] : p \in {"oauth", "fixture"}}

InitSSE ==
  \E dir \in SSEDirs :
    StartedOn(dir, 0, [requests |-> 1, faults |-> 0, acquires |-> 1,
                       ticks |-> 0, ops |-> 0, bgRuns |-> 0])

\* ---------------------------------------------------------------- runServe
\* The refresher beside the main goroutine, which blocks on the signal
\* channel, then drains the HTTP server and returns: the process ends and
\* takes the refresher goroutine with it wherever that stands.  Nothing calls
\* StopBackgroundRefresh, so stopRefresh is never ready in the select.
ServeDirs ==
  {[id \in AcctSet |-> IF id = Accts[1] THEN p
                       ELSE IF id = Accts[2] THEN q ELSE "absent"] :
     p \in {"oauth", "stale", "lapsed_off", "lapsed_cooling"},
     q \in {"oauth", "stale", "lapsed_off"}}

InitServe ==
  \E dir \in ServeDirs :
    StartedOn(dir, 0, [requests |-> 0, faults |-> MaxFaults, acquires |-> 0,
                       ticks |-> MaxTicks, ops |-> 0, bgRuns |-> MaxServeRuns])

\* `<-stop`: SIGINT or SIGTERM arrived; httpServer.Shutdown starts.
Signal ==
  /\ serve = "serving"
  /\ serve' = "draining"
  /\ UNCHANGED <<cfg, keyFiles, gate, store, usageFiles, currentIndex, now, budget,
                 tokenSeq, req, bg, op, served, ledger, trace>>

\* httpServer.Shutdown returned and runServe returns.
Exit ==
  /\ serve = "draining"
  /\ serve' = "exited"
  /\ UNCHANGED <<cfg, keyFiles, gate, store, usageFiles, currentIndex, now, budget,
                 tokenSeq, req, bg, op, served, ledger, trace>>

\* The refresher sleeps in its select until the ticker's next period.
TickerPeriod ==
  /\ serve # "exited"
  /\ bg.pc = "wait"
  /\ bg.runs > 0
  /\ budget.ticks > 0
  /\ now' = now + RefreshPeriod
  /\ budget' = [budget EXCEPT !.ticks = @ - 1]
  /\ UNCHANGED <<serve, cfg, keyFiles, gate, store, usageFiles, currentIndex, tokenSeq,
                 req, bg, op, served, ledger, trace>>

\* ------------------------------------------------------------------- specs
\* One step of the handler of request r, short of using up its attempts.
Attempt(r) ==
  \/ Begin(r)
  \/ GetTokenList(r)
  \/ GetTokenAdvance(r)
  \/ GetTokenStoreIndex(r)
  \/ GetTokenPick(r)
  \/ GetTokenRefreshed(r)
  \/ GetTokenRefreshFailed(r)
  \/ CallTransportError(r)
  \/ CallRateLimited(r)
  \/ CallPermissionDenied(r)
  \/ CallOtherStatus(r)
  \/ CallOK(r)
  \/ ReadBody(r)
  \/ RecordUsageRead(r)
  \/ RecordUsageWrite(r)
  \/ Wake(r)

Next ==
  \/ \E r \in Reqs : Attempt(r)
  \/ Tick

Spec == Init /\ [][Next]_vars

NextSeq ==
  \/ \E r \in Reqs : Attempt(r)
  \/ \E r \in Reqs : Exhausted(r)
  \/ Tick

SpecSeq == InitSeq /\ [][NextSeq]_vars

NextAdmin ==
  \/ \E r \in Reqs : Attempt(r)
  \/ BgStart
  \/ BgScan
  \/ BgRefreshed
  \/ BgRefreshFailed
  \/ \E id \in AcctSet, enable \in BOOLEAN : ToggleRead(id, enable)
  \/ ToggleWrite
  \/ \E id \in AcctSet : DeleteToken(id)
  \/ Tick

SpecAdmin == InitAdmin /\ [][NextAdmin]_vars

NextRecord ==
  \/ \E id \in AcctSet : SuccessRecorded(id)
  \/ \E id \in AcctSet : FailureRecorded(id)
  \/ \E id \in AcctSet : RateLimitRecorded(id)
  \/ \E id \in AcctSet : PermissionDeniedRecorded(id)
  \/ Tick

SpecRecord == InitRecord /\ [][NextRecord]_vars

NextRR ==
  \/ \E r \in Reqs : Begin(r)
  \/ \E r \in Reqs : GetTokenList(r)
  \/ \E r \in Reqs : GetTokenAdvance(r)
  \/ \E r \in Reqs : GetTokenStoreIndex(r)
  \/ \E r \in Reqs : GetTokenPick(r)
  \/ \E r \in Reqs : Reacquire(r)

SpecRR == InitRR /\ [][NextRR]_vars

NextStore ==
  \/ \E a \in StoreRecords : StoreSave(a)
  \/ \E id \in StoreIds : StoreLoad(id)
  \/ StoreList
  \/ \E id \in StoreIds : StoreDelete(id)

SpecStore == InitStore /\ [][NextStore]_vars

NextRefresh ==
  \/ \E id \in AcctSet : TokenRefreshed(id)
  \/ \E id \in AcctSet : TokenRefreshFailed(id)
  \/ Elapse

SpecRefresh == InitRefresh /\ [][NextRefresh]_vars

NextSSE ==
  \/ \E r \in Reqs : Begin(r)
  \/ \E r \in Reqs : GetTokenList(r)
  \/ \E r \in Reqs : GetTokenAdvance(r)
  \/ \E r \in Reqs : GetTokenStoreIndex(r)
  \/ \E r \in Reqs : GetTokenPick(r)
  \/ \E r \in Reqs : CallOK(r)
  \/ \E r \in Reqs : Dispatch(r)
  \/ \E r \in Reqs : ScanLine(r)
  \/ \E r \in Reqs : BodyDone(r)
  \/ \E r \in Reqs : RecordUsageRead(r)
  \/ \E r \in Reqs : RecordUsageWrite(r)

SpecSSE == InitSSE /\ [][NextSSE]_vars

NextServe ==
  \/ serve # "exited" /\ BgStart
  \/ serve # "exited" /\ BgScan
  \/ serve # "exited" /\ BgRefreshed
  \/ serve # "exited" /\ BgRefreshFailed
  \/ TickerPeriod
  \/ Signal
  \/ Exit

SpecServe == InitServe /\ [][NextServe]_vars

NextRace == \E r \in Reqs : Attempt(r)

SpecRace == InitRace /\ [][NextRace]_vars

NextPool ==
  \/ \E r \in Reqs : Begin(r)
  \/ \E r \in Reqs : GetTokenList(r)
  \/ \E r \in Reqs : GetTokenAdvance(r)
  \/ \E r \in Reqs : GetTokenStoreIndex(r)
  \/ \E r \in Reqs : GetTokenPick(r)
  \/ \E id \in AcctSet : DeleteToken(id)

SpecPool == InitPool /\ [][NextPool]_vars

NextAuth ==
  \/ \E c \in Callers, authHeader \in Headers : Authenticate(c, authHeader)
  \/ \E c \in Callers : SaveKeyUsage(c)
  \/ \E c \in Callers : listModels(c)

SpecAuth == InitAuth /\ [][NextAuth]_vars

\* -------------------------------------------------------------- properties
Present(id) == Load(store, id) # <<>>

AllDone == \A r \in Reqs : req[r].pc = "done"

Last(seq) == seq[Len(seq)]

\* C1: every persisted account that has a usage record satisfies
\* usage.total_tokens = usage.input_tokens + usage.output_tokens, whatever
\* usage triple the upstream reported.
C1_UsageTotalIsSum ==
  \A id \in AcctSet :
    Present(id) /\ Stored(id).usage # <<>> =>
      Stored(id).usage[1].totalTokens =
        Stored(id).usage[1].inputTokens + Stored(id).usage[1].outputTokens

\* C2: in every reachable state of the account store, every persisted account
\* with error_tracking.is_permission_denied = true has enable = false.
C2_DeniedIsDisabled ==
  \A id \in AcctSet :
    Present(id) /\ ET(Stored(id)).isPermissionDenied => ~Stored(id).enable

\* C3: whenever GetToken returns an account, that account's persisted
\* failed_until is absent or not later than now.
C3_ReturnedNotCoolingDown ==
  [][\A r \in Reqs :
       req[r].pc # "call" /\ req'[r].pc = "call" =>
         LET file == store'[req'[r].account[1].accountId]
         IN  \/ file = <<>>
             \/ file[1].errorTracking = <<>>
             \/ file[1].errorTracking[1].failedUntil = <<>>
             \/ file[1].errorTracking[1].failedUntil[1] <= now']_vars

\* GetToken has returned an account on a second or later call of a request
\* while another account's cooldown is still running.
C3_Witness ==
  \E r \in Reqs, id \in AcctSet :
    /\ req[r].pc = "call"
    /\ req[r].acquires >= 2
    /\ CoolingDown(id)
    /\ Holding(req[r]).accountId # id

\* C4: account-record updates are serialized per account, so when the requests
\* that acquired an account have all finished, the persisted record reflects
\* every update: usage.request_count counts every completion on the account.
C4_EveryCompletionCounted ==
  AllDone =>
    \A id \in AcctSet :
      Present(id) /\ Stored(id).usage # <<>> =>
        Stored(id).usage[1].requestCount = served[id]

\* C5: for every (date, account_id), after any set of successful completions,
\* concurrent ones included, the daily usage file's request_count,
\* input_tokens, output_tokens and total_tokens equal the sums over exactly
\* those completions.
C5_UsageFileIsSum ==
  AllDone =>
    \A key \in DOMAIN ledger :
      key \in DOMAIN usageFiles /\ usageFiles[key] = ledger[key]

\* C6: with K enabled accounts that are not in cooldown and need no refresh,
\* K consecutive single-threaded GetToken calls return K pairwise distinct
\* accounts and the (K+1)-th call returns the same account as the first, from
\* any initial cursor value.
Healthy == {id \in AcctSet : Candidate(store, id, now) = "ok"}

C6_RoundRobin ==
  LET K == Cardinality(Healthy)
      returned == trace.returned
  IN  K >= 1 =>
        /\ \A i, j \in 1..Min(K, Len(returned)) :
             i # j => returned[i] # returned[j]
        /\ Len(returned) > K => returned[K + 1] = returned[1]

\* Every account is healthy and the call after a full round has returned.
C6_Witness ==
  /\ Cardinality(Healthy) = Len(Accts)
  /\ Len(trace.returned) = Len(Accts) + 1

\* C7: for every k >= 1, the k-th consecutive generic failure recorded on an
\* account sets failed_until - now = min(2^k, 3600) seconds, however many
\* failures accumulate.
C7_FailureCooldown ==
  \A id \in AcctSet :
    Present(id) /\ trace.op = "failure" =>
      ET(Stored(id)).failedUntil =
        <<trace.at + (IF trace.streak >= 12 THEN 3600 ELSE Min(2 ^ trace.streak, 3600))>>

\* C8: the first 429 recorded on an account sets its backoff to 120 s and
\* failed_until to now + 120; each subsequent 429 with no success in between
\* sets the backoff to min(2 x previous, 1800) and failed_until to now + that
\* backoff; a recorded success resets the backoff and rate_limit_count to 0.
C8_RateLimitBackoff ==
  \A id \in AcctSet :
    Present(id) =>
      LET e == ET(Stored(id))
      IN  /\ trace.op = "rate_limit" =>
               /\ e.rateLimitBackoff =
                    (IF trace.limits = 1 THEN 120 ELSE Min(2 * trace.prev, 1800))
               /\ e.failedUntil = <<trace.at + e.rateLimitBackoff>>
               /\ e.rateLimitCount = trace.limits
          /\ trace.op = "success" =>
               e.rateLimitBackoff = 0 /\ e.rateLimitCount = 0

\* The fifth 429 in a row: doubling 960 would give 1920, the cap gives 1800.
C8_Witness ==
  /\ trace.op = "rate_limit"
  /\ trace.limits = 5
  /\ trace.prev = 960
  /\ Present(Accts[1])
  /\ ET(Stored(Accts[1])).rateLimitBackoff = MaxBackoff

\* C9: every chat-completion request ends with one response after at most 5
\* attempts, each one GetToken call followed by at most one upstream call; if
\* no attempt ends in a success or in a passed-through 4xx, the caller
\* receives 503 carrying the last error and the attempt count 5.
PassedThrough(status) == status >= 400 /\ status < 500 /\ status \notin {403, 429}

C9_FiveAttemptsThenUnavailable ==
  \A r \in Reqs :
    LET q == req[r]
    IN  /\ q.acquires <= 5
        /\ Len(q.log) <= q.acquires
        /\ q.pc = "done" =>
             IF q.log # <<>> /\ Last(q.log)[2] = 200
               THEN q.resp[1].status = 200
             ELSE IF q.log # <<>> /\ PassedThrough(Last(q.log)[2])
               THEN q.resp[1].status = Last(q.log)[2]
             ELSE /\ q.resp[1].status = 503
                  /\ q.resp[1].details = q.lastErr
                  /\ q.resp[1].retries = 5
                  /\ q.acquires = 5

\* C10: when the upstream call made with account X returns 429, X is persisted
\* with refresh_status "rate_limited", rate_limit_count increased by 1 and
\* failed_until = now + backoff (120 for a first 429) before the next attempt
\* begins; the next attempt of the request uses a different account; and when
\* the first call returns 429 and the second 200, the caller receives the
\* second account's response after exactly 2 attempts.
C10_RateLimitedThenNextAccount ==
  [][\A r \in Reqs :
       LET q == req[r]
           n == req'[r]
       IN  /\ Len(n.log) = Len(q.log) + 1 /\ Last(n.log)[2] = 429 =>
                LET X == Last(n.log)[1]
                    before == ET(Stored(X))
                    after == store'[X]
                IN  /\ after # <<>>
                    /\ after[1].refreshStatus = "rate_limited"
                    /\ ET(after[1]).rateLimitCount = before.rateLimitCount + 1
                    /\ ET(after[1]).failedUntil = <<now + ET(after[1]).rateLimitBackoff>>
                    /\ before.rateLimitBackoff = 0 => ET(after[1]).rateLimitBackoff = 120
                    /\ n.pc = "loop"
           /\ q.pc # "call" /\ n.pc = "call" /\ q.log # <<>> /\ Last(q.log)[2] = 429 =>
                n.account[1].accountId # Last(q.log)[1]
           /\ n.pc = "done" /\ n.acquires = 2 /\ Len(n.log) = 2
                 /\ n.log[1][2] = 429 /\ n.log[2][2] = 200 =>
                /\ n.resp[1].status = 200
                /\ n.resp[1].from = n.log[2][1]
                /\ n.log[2][1] # n.log[1][1]
                /\ n.attempt + 1 = 2]_vars

\* C11: when the upstream call made with account X returns 403, X is persisted
\* with enable = false, is_permission_denied = true and refresh_status
\* "permission_denied", and the request continues with its next attempt; no
\* later attempt of the same request uses X; and a request whose last
\* upstream call was such a 403 (X was the only enabled account) ends with
\* 503 once all 5 attempts are used.
C11_DeniedThenNextAccount ==
  [][\A r \in Reqs :
       LET q == req[r]
           n == req'[r]
       IN  /\ Len(n.log) = Len(q.log) + 1 /\ Last(n.log)[2] = 403 =>
                LET after == store'[Last(n.log)[1]]
                IN  /\ after # <<>>
                    /\ ~after[1].enable
                    /\ ET(after[1]).isPermissionDenied
                    /\ after[1].refreshStatus = "permission_denied"
                    /\ n.pc = "loop"
                    /\ n.attempt = q.attempt + 1
           /\ q.pc # "call" /\ n.pc = "call" =>
                \A k \in 1..Len(q.log) :
                  q.log[k][2] = 403 => n.account[1].accountId # q.log[k][1]
           /\ q.pc # "done" /\ n.pc = "done" /\ n.log # <<>> /\ Last(n.log)[2] = 403 =>
                /\ n.resp[1].status = 503
                /\ n.acquires = maxRetries]_vars

\* C12: when the upstream returns a 4xx status other than 429 and 403, a
\* generic failure is recorded on the account used, the caller receives that
\* same status code together with the upstream body, and no further acquire
\* or upstream call is made for that request.
C12_ClientErrorPassedThrough ==
  [][\A r \in Reqs :
       LET q == req[r]
           n == req'[r]
       IN  /\ Len(n.log) = Len(q.log) + 1 /\ PassedThrough(Last(n.log)[2]) =>
                LET X == Last(n.log)[1]
                IN  /\ store'[X] # <<>>
                    /\ store'[X][1].refreshStatus = "failed"
                    /\ ET(store'[X][1]).consecutiveFailures =
                         ET(Holding(q)).consecutiveFailures + 1
                    /\ ET(store'[X][1]).failedUntil # <<>>
                    /\ n.pc = "done"
                    /\ n.resp[1].status = Last(n.log)[2]
                    /\ n.resp[1].details = Last(n.log)[3]
           /\ q.pc = "done" => n = q]_vars

\* A request has passed a 400 and its body on after an earlier attempt failed.
C12_Witness ==
  \E r \in Reqs :
    /\ req[r].pc = "done"
    /\ Len(req[r].log) >= 2
    /\ Last(req[r].log)[2] = 400
    /\ req[r].resp[1].status = 400
    /\ req[r].resp[1].details = "malformed"

\* C13: when the upstream returns a 5xx status or the transport fails, a
\* generic failure is recorded and persisted on the account used
\* (refresh_status "failed", consecutive_failures + 1, failed_until set) and
\* the request proceeds to its next attempt if any remain; the upstream 5xx
\* status is never passed through to the caller, who gets the proxy's own 503
\* when such a call was the last.
ServerError(status) == status = 0 \/ status >= 500

C13_ServerErrorRetried ==
  [][\A r \in Reqs :
       LET q == req[r]
           n == req'[r]
       IN  /\ Len(n.log) = Len(q.log) + 1 /\ ServerError(Last(n.log)[2]) =>
                LET X == Last(n.log)[1]
                IN  /\ store'[X] # <<>>
                    /\ store'[X][1].refreshStatus = "failed"
                    /\ ET(store'[X][1]).consecutiveFailures =
                         ET(Holding(q)).consecutiveFailures + 1
                    /\ ET(store'[X][1]).failedUntil # <<>>
                    /\ n.pc = "loop"
                    /\ n.attempt = q.attempt + 1
                    /\ n.resp = <<>>
           /\ q.pc # "done" /\ n.pc = "done" /\ n.log # <<>>
                 /\ ServerError(Last(n.log)[2]) =>
                /\ n.resp[1].status = 503
                /\ n.resp[1].retries = maxRetries]_vars

\* A request has ended with 503 after a transport error and a 500.
C13_Witness ==
  \E r \in Reqs :
    /\ req[r].pc = "done"
    /\ req[r].resp[1].status = 503
    /\ Last(req[r].log)[2] = 500
    /\ \E k \in 1..Len(req[r].log) : req[r].log[k][2] = 0

\* C14: for every upstream response whose status is in 200-299, success is
\* recorded on the account before the response is dispatched: the persisted
\* account has refresh_status "success", consecutive_failures 0, failed_until
\* cleared and rate-limit backoff 0, and the request makes no further attempt.
C14_SuccessOn2xx ==
  [][\A r \in Reqs :
       LET q == req[r]
           n == req'[r]
       IN  Len(n.log) = Len(q.log) + 1 /\ Last(n.log)[2] \in 200..299 =>
             LET X == Last(n.log)[1]
             IN  /\ store'[X] # <<>>
                 /\ store'[X][1].refreshStatus = "success"
                 /\ ET(store'[X][1]).consecutiveFailures = 0
                 /\ ET(store'[X][1]).failedUntil = <<>>
                 /\ ET(store'[X][1]).rateLimitBackoff = 0
                 /\ n.pc = "body"
                 /\ n.attempt = q.attempt]_vars

\* C15: on every successful completion, for every account record (whether or
\* not it already has a usage block), the account's usage.request_count
\* increases by exactly 1, the captured input, output and total tokens are
\* added, usage.last_used_at is set to now, and the daily usage file for
\* (today, account_id) is increased by the same request and token amounts.
UsageOf(file) == IF file = <<>> \/ file[1].usage = <<>> THEN ZeroUsage ELSE file[1].usage[1]

C15_BothSinksUpdated ==
  [][\A r \in Reqs :
       LET q == req[r]
           n == req'[r]
       IN  /\ q.pc = "body" /\ n.pc = "usage_read" =>
                LET X == Holding(q).accountId
                    u == n.captured
                    old == UsageOf(store[X])
                IN  /\ store'[X] # <<>>
                    /\ store'[X][1].usage # <<>>
                    /\ UsageOf(store'[X]).requestCount = old.requestCount + 1
                    /\ UsageOf(store'[X]).inputTokens = old.inputTokens + u[1]
                    /\ UsageOf(store'[X]).outputTokens = old.outputTokens + u[2]
                    /\ UsageOf(store'[X]).totalTokens = old.totalTokens + u[3]
                    /\ UsageOf(store'[X]).lastUsed \in {<<now>>, <<Millis(now)>>}
           /\ q.pc = "usage_write" /\ n.pc = "done" =>
                LET key == <<DateOf(now), Holding(q).accountId>>
                    old == ReadUsage(usageFiles, key[1], key[2])
                IN  /\ key \in DOMAIN usageFiles'
                    /\ usageFiles'[key].requestCount = old.requestCount + 1
                    /\ usageFiles'[key].inputTokens = old.inputTokens + q.captured[1]
                    /\ usageFiles'[key].outputTokens = old.outputTokens + q.captured[2]]_vars

\* C16: once an account has been recorded as permission-denied (enable =
\* false, is_permission_denied = true), no proxy outcome, token refresh or
\* background tick sets its persisted enable flag back to true, outcomes saved
\* by requests that acquired the account before the 403 included; only a
\* step of the operator may.
C16_DeniedStaysDisabled ==
  [][\A id \in AcctSet :
       /\ Present(id)
       /\ ~Stored(id).enable
       /\ ET(Stored(id)).isPermissionDenied
       /\ op' = op
       => store'[id] = <<>> \/ ~store'[id][1].enable]_vars

\* C17: GetToken fails with the no-accounts error exactly when the store lists
\* no account, fails with the no-usable-account error only when every listed
\* account is unloadable, disabled, in cooldown or fails its refresh, and
\* otherwise returns an account whose enable flag is true; with a usable
\* account in the pool every call returns a usable account.
C17_AcquireOutcome ==
  [][\A r \in Reqs :
       LET q == req[r]
           n == req'[r]
       IN  /\ q.pc = "loop" /\ n.pc # "loop" =>
                (n.pc = "sleep" /\ n.lastErr = "no accounts available"
                   <=> List(store) = <<>>)
           /\ q.pc = "advance" /\ n.pc = "sleep" =>
                /\ n.lastErr = "no valid accounts available"
                /\ \A id \in AcctSet : Candidate(store, id, now) # "ok"
           /\ q.pc # "call" /\ n.pc = "call" =>
                /\ n.account[1].enable
                /\ Candidate(store, n.account[1].accountId, now) = "ok"]_vars

\* C20: the rotation cursor is mutated atomically: under any interleaving of
\* concurrent GetToken calls, calls that enumerated account lists of
\* different lengths included, the cursor a call reads back is the one it
\* has just stored, and it indexes the call's own list at a position
\* between 0 and the length of that list minus 1.
C20_CursorAtomic ==
  \A r \in Reqs :
    req[r].pc = "pick" =>
      /\ currentIndex = req[r].idx
      /\ currentIndex \in 0..(Len(req[r].accountIDs) - 1)

\* C18: a request to a /v1 endpoint reaches its handler if and only if its
\* Authorization header is present and the presented key (the header value
\* with an optional leading "Bearer " removed) equals the non-empty
\* configured static key or is found in the dynamic key store; an absent
\* header yields 401 missing_api_key, any other presented key 401
\* invalid_api_key, and a dynamic-store hit increments that key's usage_count
\* by exactly 1 and persists it before the handler runs.
Presented(header) ==
  IF header # <<>> /\ header[1] = "Bearer " THEN Tail(header) ELSE header

InKeyStore(keys, key) ==
  \E name \in DOMAIN keys : keys[name] # <<>> /\ keys[name][1].key = key

C18_AuthGate ==
  [][\A c \in Callers :
       LET g == gate[c]
           n == gate'[c]
           key == Presented(n.header)
           valid == /\ n.header # <<>>
                    /\ \/ cfg.apiKey # <<>> /\ key = cfg.apiKey
                       \/ InKeyStore(keyFiles, key)
       IN  /\ g.pc = "idle" /\ n.pc # "idle" =>
                /\ n.pc \in {"handler", "update"} <=> valid
                /\ n.header = <<>> => n.resp = Unauthorized("missing_api_key")
                /\ n.header # <<>> /\ ~valid => n.resp = Unauthorized("invalid_api_key")
           /\ g.pc = "update" /\ n.pc = "handler" =>
                \E name \in DOMAIN keyFiles :
                  /\ keyFiles[name] # <<>>
                  /\ keyFiles[name][1].key = Presented(g.header)
                  /\ keyFiles'[name] # <<>>
                  /\ keyFiles'[name][1].usageCount = keyFiles[name][1].usageCount + 1
                  /\ keyFiles'[name][1].lastUsed = <<now>>]_vars

\* C19: GET /v1/models returns exactly the union of the models maps of the
\* accounts whose enable flag is true: a model id is listed if and only if
\* at least one enabled account carries it.
C19_ModelsOfEnabled ==
  \A c \in Callers :
    gate[c].pc = "done" /\ gate[c].resp[1].status = 200 =>
      gate[c].resp[1].data =
        UNION {Stored(id).models : id \in {a \in AcctSet : Present(a) /\ Stored(a).enable}}

\* C21: recording an outcome changes only the fields its rule names.  At every
\* step that records the outcome of an upstream call on an account whose record
\* is persisted: a 429 leaves consecutive_failures and enable as they were
\* persisted; a 403 leaves consecutive_failures and failed_until as they were
\* persisted; a success or a generic failure leaves enable as it was persisted
\* immediately before the outcome was saved.
C21_OutcomeFrame ==
  [][\A r \in Reqs :
       LET q == req[r]
           n == req'[r]
       IN  Len(n.log) = Len(q.log) + 1 /\ Present(Last(n.log)[1]) =>
             LET status == Last(n.log)[2]
                 before == Stored(Last(n.log)[1])
                 after == store'[Last(n.log)[1]][1]
             IN  /\ status = 429 =>
                      /\ ET(after).consecutiveFailures = ET(before).consecutiveFailures
                      /\ after.enable = before.enable
                 /\ status = 403 =>
                      /\ ET(after).consecutiveFailures = ET(before).consecutiveFailures
                      /\ ET(after).failedUntil = ET(before).failedUntil
                 /\ status \notin {429, 403} => after.enable = before.enable]_vars

\* C22: once the termination signal has arrived no run of the refresher
\* begins, and when the shutdown completes no run is in flight: a run that
\* was in flight at the signal has finished or was cancelled before that.
C22_RefresherStopsCleanly ==
  [][/\ serve # "serving" => ~(bg.pc = "wait" /\ bg'.pc = "scan")
     /\ serve' = "exited" => bg'.pc = "wait"]_vars

\* A token without an issue time or a lifetime, or within the refresh window
\* of its expiry.
Expiring(a, t) ==
  a.timestamp = 0 \/ a.expiresIn = 0
    \/ ((a.timestamp \div 1000) + a.expiresIn) - t < RefreshWindow

Cooling(a, t) ==
  /\ a.errorTracking # <<>>
  /\ a.errorTracking[1].failedUntil # <<>>
  /\ a.errorTracking[1].failedUntil[1] > t

\* C23: in every run of the background refresher (the immediate one and each
\* tick), refresh is invoked for an account exactly when its record is
\* enabled, not in cooldown and expiring as the run examines it; the run
\* writes no record but that of the account whose refresh it invoked, so a
\* disabled or cooling-down account is passed over with its record unchanged.
C23_RefreshExactlyTheDue ==
  [][bg' # bg =>
       /\ bg.pc = "scan" /\ bg.i <= Len(bg.accountIDs) =>
            LET id == bg.accountIDs[bg.i]
                due == /\ Present(id)
                       /\ Stored(id).enable
                       /\ ~Cooling(Stored(id), now)
                       /\ Expiring(Stored(id), now)
            IN  /\ due <=> bg'.pc = "refreshing"
                /\ due => bg'.account = <<Stored(id)>>
                /\ ~due => bg'.pc = "scan" /\ bg'.i = bg.i + 1
                /\ store' = store
       /\ bg.pc # "refreshing" => store' = store
       /\ bg.pc = "refreshing" =>
            \A id \in AcctSet : id # bg.account[1].accountId => store'[id] = store[id]]_vars

\* C23: a run has invoked refresh for an account while another account of
\* the store is disabled or in cooldown.
C23_Witness ==
  /\ bg.pc = "refreshing"
  /\ \E id \in AcctSet :
       Present(id) /\ (~Stored(id).enable \/ Cooling(Stored(id), now))

Occurrences(seq, x) == Cardinality({k \in 1..Len(seq) : seq[k] = x})

\* C24: after save(a), load(a.account_id) returns a record equal to a and
\* list() holds the id exactly once, whether or not the id was stored before
\* (the other records are untouched); after delete(id) of a stored id, load(id)
\* fails with not-found and list() no longer holds the id; delete(id) of an id
\* that is not stored, a second delete among them, fails with not-found.
C24_StoreRoundTrip ==
  [][trace' # trace =>
       /\ trace'.op = "save" =>
            LET a == trace'.arg[1]
            IN  /\ Load(store', a.accountId) = <<a>>
                /\ Occurrences(List(store'), a.accountId) = 1
                /\ \A id \in AcctSet : id # a.accountId => store'[id] = store[id]
       /\ trace'.op = "delete" =>
            LET id == trace'.arg[1]
            IN  /\ Load(store', id) = <<>>
                /\ Occurrences(List(store'), id) = 0
                /\ trace'.result = IF Present(id) THEN <<"ok">> ELSE <<"not_exist">>
                /\ \A other \in AcctSet : other # id => store'[other] = store[other]
       /\ trace'.op = "load" =>
            trace'.result = IF Present(trace'.arg[1])
                            THEN <<"ok", Stored(trace'.arg[1])>> ELSE <<"not_exist">>
       /\ trace'.op = "list" =>
            \A id \in AcctSet :
              Occurrences(trace'.result, id) = IF Present(id) THEN 1 ELSE 0]_vars

\* C24: a load has failed with not-found right after the delete of an id that
\* had been saved over an existing record.
C24_Witness ==
  /\ trace.op = "load"
  /\ trace.result = <<"not_exist">>
  /\ \E id \in StoreIds : ~Present(id) /\ trace.arg = <<id>>
  /\ \E id \in StoreIds : Present(id) /\ ET(Stored(id)).rateLimitCount = 1

Forbidden == "oauth2: cannot fetch token: 403 Forbidden"

\* C25: when the refresh of an account's token fails with HTTP 403, the
\* account is persisted disabled (enable = false) and the selection moves on
\* to the next account; the same holds for a refresh made by the background
\* refresher.
C25_RefreshDeniedDisables ==
  [][/\ \A r \in Reqs :
          LET q == req[r]
              n == req'[r]
          IN  q.pc = "refreshing" /\ n.pc = "advance" =>
                LET after == store'[Holding(q).accountId][1]
                IN  ET(after).lastError = Forbidden =>
                      ~after.enable /\ n.i = q.i + 1
     /\ bg.pc = "refreshing" /\ bg'.pc = "scan" /\ budget'.faults < budget.faults =>
          LET after == store'[bg.account[1].accountId][1]
          IN  ET(after).lastError = Forbidden => ~after.enable /\ bg'.i = bg.i + 1]_vars

\* C26: GetToken refreshes a candidate whose token is expiring before it can
\* return it.  When the refresh succeeds the account returned carries the
\* access token just granted; when it fails the failure is persisted on the
\* candidate's record (consecutive_failures one higher, failed_until set), the
\* candidate is not returned and the walk goes on at the next position.  No
\* account is returned with an expiring token.
C26_RefreshedBeforeReturned ==
  [][\A r \in Reqs :
       LET q == req[r]
           n == req'[r]
       IN  /\ q.pc = "pick" /\ n.pc \in {"call", "refreshing"} =>
                (n.pc = "refreshing" <=> Expiring(Holding(n), now))
           /\ q.pc = "refreshing" /\ n.pc = "call" =>
                /\ tokenSeq' = tokenSeq + 1
                /\ Holding(n).accountId = Holding(q).accountId
                /\ Holding(n).accessToken = tokenSeq'
                /\ store'[Holding(n).accountId] = <<Holding(n)>>
           /\ q.pc = "refreshing" /\ n.pc # "refreshing" /\ n.pc # "call" =>
                LET after == store'[Holding(q).accountId][1]
                IN  /\ ET(after).consecutiveFailures =
                         ET(Holding(q)).consecutiveFailures + 1
                    /\ ET(after).failedUntil # <<>>
                    /\ after.accessToken = Holding(q).accessToken
                    /\ n.pc = "advance"
                    /\ n.i = q.i + 1
                    /\ n.account = <<>>
           /\ q.pc # "call" /\ n.pc = "call" =>
                /\ q.pc \in {"pick", "refreshing"}
                /\ ~Expiring(Holding(n), now')]_vars

\* C26: GetToken has returned an account it refreshed.
C26_Witness ==
  \E r \in Reqs :
    /\ req[r].pc = "call"
    /\ tokenSeq > 0
    /\ Holding(req[r]).accessToken = tokenSeq
    /\ Stored(Holding(req[r]).accountId) = Holding(req[r])

\* C27: a successful refresh stores the access token granted and the new
\* expiry (lifetime and issue time), replaces the stored refresh token exactly
\* when the grant carried one, and records success; a failed refresh leaves
\* access_token, refresh_token, expires_in and the issue time as they were and
\* records a generic failure.  Neither changes the enable flag.
C27_RefreshOutcome ==
  [][trace' # trace /\ trace'.op \in {"refreshed", "refresh_failed"} =>
       LET id == trace'.arg[1]
           before == Stored(id)
           after == store'[id][1]
       IN  /\ trace'.op = "refreshed" =>
                /\ after.accessToken = trace'.arg[2]
                /\ after.refreshToken = IF trace'.arg[3] = <<>> THEN before.refreshToken
                                        ELSE trace'.arg[3][1]
                /\ after.expiresIn = TokenLifetime
                /\ after.timestamp = Millis(now)
                /\ after.refreshStatus = "success"
                /\ ET(after).consecutiveFailures = 0
                /\ ET(after).failedUntil = <<>>
                /\ ET(after).lastError = ""
                /\ ET(after).rateLimitCount = 0
           /\ trace'.op = "refresh_failed" =>
                /\ after.accessToken = before.accessToken
                /\ after.refreshToken = before.refreshToken
                /\ after.expiresIn = before.expiresIn
                /\ after.timestamp = before.timestamp
                /\ after.refreshStatus = "failed"
                /\ ET(after).consecutiveFailures = ET(before).consecutiveFailures + 1
                /\ ET(after).lastError = trace'.arg[2]
                /\ ET(after).failedUntil # <<>>
                /\ ET(after).rateLimitCount = ET(before).rateLimitCount
                /\ ET(after).isPermissionDenied = ET(before).isPermissionDenied
           /\ after.enable = before.enable
           /\ after.accountId = id]_vars

\* C27: a refresh has stored a grant without a refresh token over a record
\* whose refresh token an earlier grant had replaced.
C27_Witness ==
  /\ trace.op = "refreshed"
  /\ trace.arg[3] = <<>>
  /\ Stored(trace.arg[1]).refreshToken > 0
  /\ Stored(trace.arg[1]).accessToken = trace.arg[2]

\* What an upstream body means, read off its lines one by one.
IsData(line) == Len(line.text) > 0 /\ line.text[1] = "data: "

IsDone(line) == IsData(line) /\ Len(line.text) = 2 /\ line.text[2] = "[DONE]"

IsEvent(line) == IsData(line) /\ Len(line.text) = 3 /\ line.text[2] = "json"

PartsOf(line) ==
  IF IsEvent(line) /\ line.text[3].candidates # <<>>
  THEN line.text[3].candidates[1].parts ELSE <<>>

\* The lines before the first [DONE] line.
RECURSIVE Live(_)
Live(lines) ==
  IF lines = <<>> \/ IsDone(Head(lines)) THEN <<>>
  ELSE <<Head(lines)>> \o Live(Tail(lines))

\* The lines bufio.Scanner hands over: those before the first line too long
\* for its buffer.
RECURSIVE Delivered(_)
Delivered(lines) ==
  IF lines = <<>> \/ Head(lines).long THEN <<>>
  ELSE <<Head(lines)>> \o Delivered(Tail(lines))

RECURSIVE Texts(_)
Texts(parts) ==
  IF parts = <<>> THEN <<>>
  ELSE (IF Head(parts).text # <<>> THEN <<Head(parts).text>> ELSE <<>>)
         \o Texts(Tail(parts))

RECURSIVE TextsOfLines(_)
TextsOfLines(lines) ==
  IF lines = <<>> THEN <<>>
  ELSE Texts(PartsOf(Head(lines))) \o TextsOfLines(Tail(lines))

RECURSIVE ContentsOf(_)
ContentsOf(out) ==
  IF out = <<>> THEN <<>>
  ELSE (IF Head(out).object = "chat.completion.chunk" /\ Head(out).content # <<>>
        THEN <<Head(out).content>> ELSE <<>>) \o ContentsOf(Tail(out))

Streamed(q) == q.sse # <<>> /\ q.sse[1].stream

Aggregated(q) == q.sse # <<>> /\ ~q.sse[1].stream

\* C28: in streaming mode a line that does not begin with "data: " and a data
\* line that does not decode write nothing and do not end the stream; the
\* chunks written carry, in order, the text of every text part of every event
\* before the end of the body or its [DONE] line; and the response ends with
\* exactly one "data: [DONE]", written last.
C28_StreamChunks ==
  [][\A r \in Reqs :
       LET q == req[r]
           n == req'[r]
       IN  /\ /\ Streamed(q) /\ q.pc = "body" /\ n.sse # q.sse
              /\ q.sse[1].pos <= Len(q.sse[1].lines)
              /\ ~IsDone(q.sse[1].lines[q.sse[1].pos])
              /\ ~IsEvent(q.sse[1].lines[q.sse[1].pos])
              => /\ n.sse[1].out = q.sse[1].out
                 /\ ~n.sse[1].eof
                 /\ n.sse[1].pos = q.sse[1].pos + 1
           /\ Streamed(n) /\ q.pc # "done" /\ n.pc = "done" =>
                LET out == n.sse[1].out
                IN  /\ out # <<>>
                    /\ out[Len(out)].object = "[DONE]"
                    /\ \A k \in 1..(Len(out) - 1) : out[k].object # "[DONE]"
                    /\ ContentsOf(out) = TextsOfLines(Live(n.sse[1].lines))]_vars

\* The events the handler is given: the lines the scanner hands over before
\* the [DONE] line.
Heard(lines) == Delivered(Live(lines))

\* The usage metadata of the last event that carries one.
RECURSIVE LastUsage(_, _)
LastUsage(lines, captured) ==
  IF lines = <<>> THEN captured
  ELSE LastUsage(Tail(lines),
                 IF IsEvent(Head(lines)) /\ Head(lines).text[3].usageMetadata # <<>>
                 THEN LET m == Head(lines).text[3].usageMetadata[1]
                      IN  <<m.promptTokenCount, m.candidatesTokenCount, m.totalTokenCount>>
                 ELSE captured)

\* C29: whatever the mode, the usage captured for a request is the usage
\* metadata of the last event of the body that carries one, with or without
\* candidates, and that usage is what is added to the account's usage block
\* and to the daily usage file.
C29_SameUsageBothModes ==
  [][\A r \in Reqs :
       LET q == req[r]
           n == req'[r]
           u == LastUsage(Heard(q.sse[1].lines), <<0, 0, 0>>)
           id == Holding(q).accountId
       IN  /\ q.sse # <<>> /\ q.pc = "body" /\ n.pc = "usage_read" =>
                /\ n.captured = u
                /\ Holding(q).usage # <<>> =>
                     /\ store'[id] # <<>>
                     /\ store'[id][1].usage # <<>>
                     /\ store'[id][1].usage[1].inputTokens
                          = Holding(q).usage[1].inputTokens + u[1]
                     /\ store'[id][1].usage[1].outputTokens
                          = Holding(q).usage[1].outputTokens + u[2]
                     /\ store'[id][1].usage[1].totalTokens
                          = Holding(q).usage[1].totalTokens + u[3]
           /\ q.sse # <<>> /\ q.pc = "usage_write" /\ n.pc = "done" =>
                LET file == ReadUsage(usageFiles', DateOf(now), id)
                IN  /\ file.inputTokens = q.record[1].inputTokens + u[1]
                    /\ file.outputTokens = q.record[1].outputTokens + u[2]]_vars

RECURSIVE AllParts(_)
AllParts(lines) ==
  IF lines = <<>> THEN <<>> ELSE PartsOf(Head(lines)) \o AllParts(Tail(lines))

RECURSIVE Joined(_)
Joined(texts) == IF texts = <<>> THEN <<>> ELSE Head(texts) \o Joined(Tail(texts))

IsThought(part) == part.text # <<>> /\ part.thought

IsPlainText(part) == part.text # <<>> /\ ~part.thought

IsCall(part) == part.functionCall # <<>>

RECURSIVE ToolCallsOf(_)
ToolCallsOf(parts) ==
  IF parts = <<>> THEN <<>>
  ELSE (IF IsCall(Head(parts))
        THEN <<[id |-> Head(parts).functionCall[1].id, type |-> "function",
                function |-> [name |-> Head(parts).functionCall[1].name,
                              arguments |-> Head(parts).functionCall[1].args]]>>
        ELSE <<>>) \o ToolCallsOf(Tail(parts))

\* C30: in aggregated mode, over the events of the body, the response's
\* reasoning is the texts of the thought parts joined in order and its content
\* the texts of the other text parts joined in order (before the <think>
\* fallback, which applies only when no thought part arrived and the content
\* holds a <think> block), and the message's tool calls are the function-call
\* parts in order, each as {id, type "function", function {name, arguments}}.
C30_AggregatedMessage ==
  [][\A r \in Reqs :
       LET q == req[r]
           n == req'[r]
           parts == AllParts(Heard(n.sse[1].lines))
           reasoning == Joined(Texts(SelectSeq(parts, IsThought)))
           content == Joined(Texts(SelectSeq(parts, IsPlainText)))
           message == n.sse[1].out[1]
       IN  Aggregated(n) /\ q.pc # "done" /\ n.pc = "done" =>
             /\ Len(n.sse[1].out) = 1
             /\ message.object = "chat.completion"
             /\ reasoning # <<>> \/ FindThink(content) = <<>> =>
                  /\ message.reasoning = reasoning
                  /\ message.content = content
             /\ message.toolCalls = ToolCallsOf(parts)]_vars

\* The texts of C30 alone, without the tool calls.
C30_AggregatedTexts ==
  [][\A r \in Reqs :
       LET q == req[r]
           n == req'[r]
           parts == AllParts(Heard(n.sse[1].lines))
           reasoning == Joined(Texts(SelectSeq(parts, IsThought)))
           content == Joined(Texts(SelectSeq(parts, IsPlainText)))
           message == n.sse[1].out[1]
       IN  /\ Aggregated(n) /\ q.pc # "done" /\ n.pc = "done"
           /\ reasoning # <<>> \/ FindThink(content) = <<>>
           => /\ message.reasoning = reasoning
              /\ message.content = content]_vars

\* ------------------------------- the end of handleNormalResponse on its own
\* The parts of a body are its thought parts and its visible text, drawn from
\* texts of a few pieces: the two tags, white space and a letter.  Aggregate
\* is the loop over the parts and the fallback, run once for a response;
\* Reextract is the fallback run again on what it returned.
ThinkPieces == {"<think>", "</think>", " ", "x"}

ThinkTexts == UNION {[1..n -> ThinkPieces] : n \in 0..MaxPieces}

ThoughtsSent == {<<>>, <<ThoughtPart(<<>>)>>, <<ThoughtPart(<<"T">>)>>}

InitThink ==
  StartedOn([id \in AcctSet |-> "absent"], 0,
            [requests |-> 0, faults |-> 0, acquires |-> 0,
             ticks |-> 0, ops |-> 0, bgRuns |-> 0])

Aggregate ==
  /\ trace.op = ""
  /\ store' = store
  /\ \E thoughts \in ThoughtsSent, text \in ThinkTexts :
       LET parts == thoughts \o <<TextPart(text)>>
       IN  Called("aggregate", <<parts>>,
                  <<ExtractThink(TextOf(parts, FALSE), TextOf(parts, TRUE))>>)

Reextract ==
  /\ trace.op \in {"aggregate", "extract"}
  /\ store' = store
  /\ Called("extract", trace.result,
            <<ExtractThink(trace.result[1].content, trace.result[1].reasoning)>>)

NextThink ==
  \/ Aggregate
  \/ Reextract

SpecThink == InitThink /\ [][NextThink]_vars

\* What the <think> fallback is to do, said without the code's own helpers.
IsBlank(text) == \A k \in 1..Len(text) : text[k] = " "

IsTrimOf(u, text) ==
  \E a \in 1..(Len(text) + 1), b \in 0..Len(text) :
    /\ u = Sub(text, a, b)
    /\ IsBlank(Sub(text, 1, a - 1))
    /\ IsBlank(Sub(text, b + 1, Len(text)))
    /\ u = <<>> \/ (u[1] # " " /\ u[Len(u)] # " ")

\* The first <think>...</think> block of a text lies at i..j.
FirstBlock(text, i, j) ==
  /\ i \in 1..Len(text) /\ j \in (i + 1)..Len(text)
  /\ text[i] = "<think>" /\ text[j] = "</think>"
  /\ \A k \in 1..(i - 1) : text[k] # "<think>"
  /\ \A k \in (i + 1)..(j - 1) : text[k] # "</think>"

HasBlock(text) == \E i, j \in 1..Len(text) : FirstBlock(text, i, j)

Without(text, i, j) == Sub(text, 1, i - 1) \o Sub(text, j + 1, Len(text))

ThoughtArrived(parts) == \E k \in 1..Len(parts) : parts[k].thought

VisibleText(parts) == Joined(Texts(SelectSeq(parts, IsPlainText)))

ThoughtText(parts) == Joined(Texts(SelectSeq(parts, IsThought)))

\* C31 as stated: in aggregated mode, with no thought part and a
\* <think>...</think> block in the content, the inner text of the first block
\* is the reasoning and the content is the content without that block,
\* trimmed; with any thought part the content is returned unchanged.
C31_FallbackAsStated ==
  trace.op = "aggregate" =>
    LET parts == trace.arg[1]
        content == VisibleText(parts)
        got == trace.result[1]
    IN  /\ ~ThoughtArrived(parts) /\ HasBlock(content) =>
             \E i, j \in 1..Len(content) :
               /\ FirstBlock(content, i, j)
               /\ got.reasoning = Sub(content, i + 1, j - 1)
               /\ IsTrimOf(got.content, Without(content, i, j))
        /\ ThoughtArrived(parts) => got.content = content

\* C31 amended: with no text from thought parts and a <think>...</think> block
\* in the content, the trimmed inner text of the first block is the reasoning
\* and the content is the content without that block, trimmed; with text from
\* thought parts, or without a block, content and reasoning are returned as
\* accumulated.
C31_ThinkFallback ==
  trace.op = "aggregate" =>
    LET parts == trace.arg[1]
        content == VisibleText(parts)
        got == trace.result[1]
    IN  IF ThoughtText(parts) = <<>> /\ HasBlock(content)
        THEN \E i, j \in 1..Len(content) :
               /\ FirstBlock(content, i, j)
               /\ IsTrimOf(got.reasoning, Sub(content, i + 1, j - 1))
               /\ IsTrimOf(got.content, Without(content, i, j))
        ELSE /\ got.content = content
             /\ got.reasoning = ThoughtText(parts)

\* A block with white space around its inner text and around what is left
\* has been extracted.
C31_Witness ==
  /\ trace.op = "aggregate"
  /\ ~ThoughtArrived(trace.arg[1])
  /\ VisibleText(trace.arg[1]) = <<"<think>", " ", "x", "</think>">>
  /\ trace.result[1] = [content |-> <<>>, reasoning |-> <<"x">>]

\* C32: the <think> extractor is idempotent: run on the content and reasoning
\* it produced, it leaves the content unchanged and extracts no further
\* reasoning.
C32_ExtractorIdempotent ==
  trace.op = "extract" =>
    /\ trace.result[1].content = trace.arg[1].content
    /\ trace.result[1].reasoning = trace.arg[1].reasoning

\* The same where the first extraction found a reasoning that is not empty.
C32_IdempotentOnceFilled ==
  trace.op = "extract" /\ trace.arg[1].reasoning # <<>> =>
    trace.result[1] = trace.arg[1]

\* --------------------------------------------------------- transformRequest
\* A model name and a data URL are the sequences of their pieces, so that
\* suffixes, prefixes and strings.Split are real; a message content is a
\* string or an array of items (the type switch on msg.Content); a zero
\* number is an absent one (`!= 0` before taking the address).
ThinkingBudget == 8192

ResponseBuffer == 4096

HasSuffix(text, suffix) == Len(text) > 0 /\ text[Len(text)] = suffix

TrimSuffix(text, suffix) ==
  IF HasSuffix(text, suffix) THEN Sub(text, 1, Len(text) - 1) ELSE text

EnableThinking_SuffixOnly(modelName) == HasSuffix(modelName, "-thinking")

EnableThinking(modelName) ==
  \/ HasSuffix(modelName, "-thinking")
  \/ modelName = <<"gemini-2.5-pro">>
  \/ HasPrefix(modelName, "gemini-3-pro-")

StringContent(text) == [kind |-> "string", text |-> text, items |-> <<>>]

ArrayContent(items) == [kind |-> "array", text |-> "", items |-> items]

TextItem(text) == [type |-> "text", text |-> text, url |-> <<>>]

ImageItem(url) == [type |-> "image_url", text |-> "", url |-> url]

TextOnly(text) == [text |-> text, inlineData |-> <<>>]

InlineData(mimeType, data) ==
  [text |-> "", inlineData |-> <<[mimeType |-> mimeType, data |-> data]>>]

\* strings.Split(url, ";base64,").
RECURSIVE Split(_)
Split(url) ==
  IF url = <<>> THEN <<<<>>>>
  ELSE LET rest == Split(Tail(url))
       IN  IF Head(url) = ";base64," THEN <<<<>>>> \o rest
           ELSE <<<<Head(url)>> \o Head(rest)>> \o Tail(rest)

\* The parts one item of a content array gives.
ItemParts(item) ==
  IF item.type = "text" THEN <<TextOnly(item.text)>>
  ELSE IF item.type = "image_url"
            /\ Len(item.url) >= 2 /\ item.url[1] = "data:" /\ item.url[2] = "image/"
            /\ Len(Split(item.url)) = 2
       THEN <<InlineData(TrimPrefix(Split(item.url)[1], "data:"), Split(item.url)[2])>>
  ELSE <<>>

RECURSIVE ItemsParts(_)
ItemsParts(items) ==
  IF items = <<>> THEN <<>> ELSE ItemParts(Head(items)) \o ItemsParts(Tail(items))

ContentParts(content) ==
  IF content.kind = "string" THEN <<TextOnly(content.text)>>
  ELSE ItemsParts(content.items)

\* The loop over req.Messages: the contents ...
RECURSIVE Contents(_)
Contents(messages) ==
  IF messages = <<>> THEN <<>>
  ELSE LET msg == Head(messages)
       IN  (IF msg.role = "system" THEN <<>>
            ELSE <<[role |-> IF msg.role = "assistant" THEN "model" ELSE msg.role,
                    parts |-> ContentParts(msg.content)]>>)
             \o Contents(Tail(messages))

\* ... and the system instruction, which every system message assigns anew.
RECURSIVE SystemInstruction(_)
SystemInstruction(messages) ==
  IF messages = <<>> THEN <<>>
  ELSE LET msg == messages[Len(messages)]
       IN  IF msg.role = "system"
           THEN <<[role |-> "user",
                   parts |-> <<TextOnly(IF msg.content.kind = "string"
                                        THEN msg.content.text ELSE "")>>]>>
           ELSE SystemInstruction(Sub(messages, 1, Len(messages) - 1))

StopSequences ==
  <<"<|user|>", "<|bot|>", "<|context_request|>", "<|endoftext|>", "<|end_of_turn|>">>

GenerationConfig(creq) ==
  LET asked == OmitEmpty(creq.maxTokens, 0)
      thinking == EnableThinking(creq.model)
      minMaxTokens == ThinkingBudget + ResponseBuffer
  IN  [candidateCount |-> 1,
       stopSequences |-> StopSequences,
       temperature |-> OmitEmpty(creq.temperature, 0),
       topP |-> OmitEmpty(creq.topP, 0),
       topK |-> OmitEmpty(creq.topK, 0),
       maxOutputTokens |->
         IF thinking /\ (asked = <<>> \/ asked[1] <= ThinkingBudget)
         THEN <<minMaxTokens>> ELSE asked,
       thinkingConfig |->
         IF thinking
         THEN <<[includeThoughts |-> TRUE, thinkingBudget |-> ThinkingBudget]>>
         ELSE <<>>]

RECURSIVE Declarations_All(_)
Declarations_All(tools) ==
  IF tools = <<>> THEN <<>>
  ELSE <<[name |-> Head(tools).function.name,
          description |-> Head(tools).function.description,
          parameters |-> Head(tools).function.parameters]>>
         \o Declarations_All(Tail(tools))

RECURSIVE Declarations(_)
Declarations(tools) ==
  IF tools = <<>> THEN <<>>
  ELSE (IF Head(tools).type = "function"
        THEN <<[name |-> Head(tools).function.name,
                description |-> Head(tools).function.description,
                parameters |-> Head(tools).function.parameters]>>
        ELSE <<>>) \o Declarations(Tail(tools))

GoogleTools_All(tools) ==
  IF Len(tools) > 0 THEN <<[functionDeclarations |-> Declarations_All(tools)]>>
  ELSE <<>>

GoogleTools(tools) ==
  IF Len(tools) > 0 /\ Len(Declarations(tools)) > 0
  THEN <<[functionDeclarations |-> Declarations(tools)]>>
  ELSE <<>>

\* seed stands for what math/rand and uuid give this call.
transformRequest(creq, seed) ==
  [project |-> <<"project", seed>>,
   requestId |-> <<"agent-", seed>>,
   model |-> TrimSuffix(creq.model, "-thinking"),
   userAgent |-> "antigravity",
   request |-> [contents |-> Contents(creq.messages),
                generationConfig |-> GenerationConfig(creq),
                sessionId |-> <<"-", seed>>,
                systemInstruction |-> SystemInstruction(creq.messages),
                tools |-> GoogleTools(creq.tools)]]

\* The requests a caller posts.
ModelNames ==
  {<<"gemini-2.0-flash">>, <<"gemini-2.0-flash", "-thinking">>,
   <<"gemini-2.5-pro">>, <<"gemini-2.5-pro", "-preview">>,
   <<"gemini-3-pro-", "high">>, <<"gemini-3-pro">>}

MaxTokensAsked == {0, 1, ThinkingBudget, ThinkingBudget + 1}

Sampling == {<<0, 0, 0>>, <<7, 9, 40>>}

Seeds == {"s1", "s2"}

DataURL == <<"data:", "image/", "png", ";base64,", "AAAA">>

Messages ==
  {[role |-> "system", content |-> StringContent("be terse")],
   [role |-> "system", content |-> ArrayContent(<<TextItem("be terse")>>)],
   [role |-> "user", content |-> StringContent("hi")],
   [role |-> "assistant", content |-> StringContent("ok")],
   [role |-> "tool", content |-> StringContent("42")],
   [role |-> "user",
    content |-> ArrayContent(<<TextItem("look"), ImageItem(DataURL),
                               ImageItem(<<"https:", "x">>)>>)]}

Tools ==
  {[type |-> "function",
    function |-> [name |-> "f", description |-> "first", parameters |-> "{}"]],
   [type |-> "function",
    function |-> [name |-> "g", description |-> "", parameters |-> "null"]],
   [type |-> "retrieval",
    function |-> [name |-> "r", description |-> "", parameters |-> "null"]]}

InitTransform ==
  StartedOn([id \in AcctSet |-> "absent"], 0,
            [requests |-> 0, faults |-> 0, acquires |-> 0,
             ticks |-> 0, ops |-> 0, bgRuns |-> 0])

\* One request is translated: its messages and tools number MaxItems at most.
Transform ==
  /\ trace.op = ""
  /\ store' = store
  /\ \E n \in 0..MaxItems :
       \E k \in 0..(MaxItems - n) :
         \E m \in ModelNames, ms \in [1..n -> Messages], mt \in MaxTokensAsked,
            s \in Sampling, ts \in [1..k -> Tools], seed \in Seeds :
           LET creq == [model |-> m, messages |-> ms, maxTokens |-> mt,
                        temperature |-> s[1], topP |-> s[2], topK |-> s[3],
                        tools |-> ts]
           IN  Called("transformRequest", <<creq>>, <<transformRequest(creq, seed)>>)

NextTransform == Transform

SpecTransform == InitTransform /\ [][NextTransform]_vars

IsSystem(msg) == msg.role = "system"

NotSystem(msg) == msg.role # "system"

IsTextItem(item) == item.type = "text"

\* The texts a message content carries: a string's, or those of the text
\* items of an array.
ContentTexts(content) ==
  IF content.kind = "string" THEN <<content.text>>
  ELSE LET items == SelectSeq(content.items, IsTextItem)
       IN  [k \in 1..Len(items) |-> items[k].text]

PartTexts(parts) == [k \in 1..Len(parts) |-> parts[k].text]

\* C34: the vendor contents are exactly the messages that are not system
\* messages, in their order, with role assistant become model and every
\* other role kept; the system instruction is there exactly when the list has
\* a system message, and carries the text of a system message.
C34_MessagesToContents ==
  trace.op = "transformRequest" =>
    LET messages == trace.arg[1].messages
        kept == SelectSeq(messages, NotSystem)
        sent == trace.result[1].request
    IN  /\ Len(sent.contents) = Len(kept)
        /\ \A k \in 1..Len(kept) :
             sent.contents[k].role
               = IF kept[k].role = "assistant" THEN "model" ELSE kept[k].role
        /\ (sent.systemInstruction # <<>>) <=> SelectSeq(messages, IsSystem) # <<>>
        /\ sent.systemInstruction # <<>> =>
             \E k \in 1..Len(messages) :
               /\ IsSystem(messages[k])
               /\ PartTexts(sent.systemInstruction[1].parts)
                    = ContentTexts(messages[k].content)

\* The same for lists whose system messages have a string for content.
C34_StringSystemMessages ==
  trace.op = "transformRequest"
    /\ (\A k \in 1..Len(trace.arg[1].messages) :
          IsSystem(trace.arg[1].messages[k])
            => trace.arg[1].messages[k].content.kind = "string")
    => C34_MessagesToContents

IsFunctionTool(tool) == tool.type = "function"

\* C35: the vendor request has at most one tool group; it holds one function
\* declaration (name, description, parameters) for every caller tool of type
\* "function", in the caller's order, and none for a tool of another type;
\* without a caller tool of type "function" the request has no tools.
C35_ToolsForwarded ==
  trace.op = "transformRequest" =>
    LET functions == SelectSeq(trace.arg[1].tools, IsFunctionTool)
        sent == trace.result[1].request.tools
    IN  /\ Len(sent) <= 1
        /\ (sent = <<>>) <=> (functions = <<>>)
        /\ sent # <<>> =>
             /\ Len(sent[1].functionDeclarations) = Len(functions)
             /\ \A k \in 1..Len(functions) :
                  /\ sent[1].functionDeclarations[k].name = functions[k].function.name
                  /\ sent[1].functionDeclarations[k].description
                       = functions[k].function.description
                  /\ sent[1].functionDeclarations[k].parameters
                       = functions[k].function.parameters

\* Two function tools around a tool of another type went out as g, f.
C35_Witness ==
  /\ trace.op = "transformRequest"
  /\ Len(trace.arg[1].tools) = 3
  /\ trace.arg[1].tools[1].function.name = "g"
  /\ trace.arg[1].tools[2].type = "retrieval"
  /\ trace.arg[1].tools[3].function.name = "f"
  /\ Len(trace.result[1].request.tools) = 1
  /\ Len(trace.result[1].request.tools[1].functionDeclarations) = 2
  /\ trace.result[1].request.tools[1].functionDeclarations[2].name = "f"

\* C36: once the operator has deleted an account, no outcome of a request
\* and no token refresh writes its file again: a file that is gone stays
\* gone (the runs create no account), so the account is in no later list
\* and is returned by no later GetToken.
C36_DeletedStaysDeleted ==
  [][\A id \in AcctSet : store[id] = <<>> => store'[id] = <<>>]_vars

\* A request records the outcome of an upstream call, or the usage of its
\* response, in this step.
OutcomeSaved(r) ==
  \/ Len(req'[r].log) > Len(req[r].log)
  \/ req[r].pc = "body" /\ req'[r].pc = "usage_read"

\* C37: the outcome a request saves for an account never puts back token
\* fields older than those a refresh has persisted: after the save the
\* stored access token, refresh token, lifetime and time of issue are those
\* stored before it.
C37_OutcomeKeepsTokens ==
  [][\A r \in Reqs : \A id \in AcctSet :
       OutcomeSaved(r) /\ store[id] # <<>> /\ store'[id] # <<>> =>
         /\ store'[id][1].accessToken = store[id][1].accessToken
         /\ store'[id][1].refreshToken = store[id][1].refreshToken
         /\ store'[id][1].expiresIn = store[id][1].expiresIn
         /\ store'[id][1].timestamp = store[id][1].timestamp]_vars

\* C38: a presented key that is not the static key and equals the key field
\* of no stored API-key record is not accepted through the key store: it is
\* answered 401 invalid_api_key, and no key file is written for it.
C38_ExactKeyMatch ==
  [][\A c \in Callers :
       LET g == gate[c]
           n == gate'[c]
       IN  /\ /\ g.pc = "idle" /\ n.pc # "idle" /\ n.header # <<>>
              /\ ~(cfg.apiKey # <<>> /\ Presented(n.header) = cfg.apiKey)
              /\ ~InKeyStore(keyFiles, Presented(n.header))
              => n.pc = "done" /\ n.resp = Unauthorized("invalid_api_key")
           /\ /\ g.pc = "update" /\ n.pc = "handler"
              /\ ~InKeyStore(keyFiles, Presented(g.header))
              => keyFiles' = keyFiles]_vars

\* C39: a 429 for an account stored without an error-tracking block is
\* handled like any other 429: the rate limit is recorded and persisted on
\* the account (status "rate_limited", count 1, first backoff), and the
\* request goes on to its next attempt; the handler does not abort.
C39_RateLimitOnBareAccount ==
  [][\A r \in Reqs :
       LET q == req[r]
           n == req'[r]
       IN  /\ q.pc = "call" /\ Holding(q).errorTracking = <<>>
           /\ Len(n.log) = Len(q.log) + 1 /\ Last(n.log)[2] = 429
           => LET after == store'[Holding(q).accountId]
              IN  /\ after # <<>>
                  /\ after[1].refreshStatus = "rate_limited"
                  /\ after[1].errorTracking # <<>>
                  /\ after[1].errorTracking[1].rateLimitCount = 1
                  /\ after[1].errorTracking[1].rateLimitBackoff = FirstBackoff
                  /\ n.pc = "loop"
                  /\ n.resp = <<>>]_vars

====
